---- MODULE Spec2Model ----
(***************************************************************************)
(* State-machine model of the audinote media pipeline services:            *)
(*   processAudio        (src/src/services/audioProcessor.js)              *)
(*   transcribeAudio     (src/src/services/transcriber.js)                 *)
(*   getAudioDuration    (src/src/services/audioDurationDetector.js)       *)
(*   getVideoDuration    (src/src/services/timeEstimator.js, l.270-362)    *)
(*   router.post("/")    (src/src/routes/transcriptionRoutes.js, l.39-90)  *)
(*   downloadAudioWithYtDlp and router.post("/") of the YouTube route      *)
(*                       (src/src/routes/transcriptionRoutes.js, l.93-193) *)
(*   errorHandler        (src/src/utils/errorHandler.js)                   *)
(*   parseDurationToSeconds, formatTime  (utils/timeFormatter.js)          *)
(*   calculateEstimatedProcessingTime, calculateTimeDifference             *)
(*                       (src/src/services/processingTimeEstimator.js)     *)
(* Spec exercises the services, the error handler and the two routes;      *)
(* PureSpec calls the time utilities on their own, on arguments drawn      *)
(* from bounded sets.                                                      *)
(* Child processes are modelled by the events they deliver to the          *)
(* listeners the code registers: stdout/stderr 'data', 'close', 'error'.   *)
(* Text that the code parses is a sequence of one-character strings; text  *)
(* that is only concatenated or compared is a TLA+ string.                 *)
(***************************************************************************)
EXTENDS Integers, Sequences, FiniteSets, TLC

VARIABLES
    op,             \* the exported function exercised in this behaviour
    spawnLog,       \* every child_process.spawn call, in order
    deleteCalls,    \* every deleteFile(path) call, in order
    logs,           \* logger / console calls that claims refer to, in order
    \* ---- processAudio, one invocation per input path ----
    paPc,           \* "idle" | "running" | "done"
    cleanupDone,    \* the guard flag of doCleanup
    ffmpegError,    \* the accumulated stderr of the transcode process
    paFired,        \* the process events delivered so far, in order
    paEnv,          \* what the environment answered: fs.existsSync(filePath), the
                    \* 'error' message, the exit code, fs.existsSync(wavFile)
    paPromise,      \* the promise processAudio returned
    \* ---- transcribeAudio, one invocation ----
    tPc,            \* "idle" | "running" | "unlinking" | "writing" | "done" | "crashed"
    wavFile,        \* the wavFile argument captured by the listeners
    tLanguage,      \* the language argument
    tChunks,        \* the stdout chunks the transcription process has delivered, in order
    transcription,  \* the accumulated stdout of the transcription process
    pyStderr,       \* the stderr chunks the transcription process has delivered
    tCode,          \* the exit code handed to the 'close' listener
    unlinkCalls,    \* every fs.unlink(path) call with its outcome, in order
    writeCalls,     \* every fs.writeFile(file, data) call, in order
    tPromise,       \* the promise transcribeAudio returned
    \* ---- getVideoDuration, one invocation ----
    vPc,            \* "idle" | "primary" | "fallback" | "done" | "crashed"
    durationData,   \* the accumulated stdout of the primary yt-dlp process
    errorOutput,    \* the accumulated stderr of the primary yt-dlp process
    fallbackData,   \* durationData of fallbackGetDuration
    vPromise,       \* the promise getVideoDuration returned
    vExit,          \* the exit codes of the 'close' events delivered (primary, fallback)
    \* ---- getAudioDuration, one invocation ----
    aPc,            \* "idle" | "probing" | "fallback" | "done" | "crashed"
    aFilePath,      \* the filePath argument captured by the ffprobe callback
    output,         \* the accumulated stderr of the fallback ffmpeg process
    aPromise,       \* the promise getAudioDuration returned
    aProbe,         \* the (err, metadata) pair handed to the ffprobe callback
    aExit,          \* the exit codes of the 'close' events delivered
    \* ---- router.post("/") of the upload or the YouTube route, one request ----
    rPc,            \* "idle" | "awaitProcessAudio" | "awaitGetAudioDuration"
                    \*   | "awaitTranscribeAudio" | "youtubeAwaitGetVideoDuration"
                    \*   | "youtubeAwaitDownload" | "youtubeAwaitProcessAudio"
                    \*   | "youtubeAwaitTranscribeAudio" | "responded" | "failed"
    req,            \* req.file.path, req.body.language and req.body.url
    rWavFile,       \* the handler's local wavFile (null until conversion succeeded)
    response,       \* what the handler or the error handler sent
    \* ---- the time utilities called on their own, one call chain ----
    pFn,            \* the exported function called ("none" when none is)
    pArg,           \* the arguments of the call
    pOut,           \* what the calls made so far returned, in order
    \* ---- errorHandler, called on its own or through next(error) ----
    hErr,           \* the error handed to the handler
    \* ---- router.post("/") of the YouTube route ----
    clock,          \* the last value Date.now() returned (0 before the first call)
    tempFilename,   \* the handler's local tempFilename, per request (null before arrival)
    dlPc,           \* downloadAudioWithYtDlp: "idle" | "running" | "done" | "crashed"
    dlPromise,      \* the promise downloadAudioWithYtDlp returned
    ytEnv           \* what the environment answered: the exit code of the download,
                    \* fs.existsSync(tempFilename) in the catch block

paVars == <<paPc, cleanupDone, ffmpegError, paFired, paEnv, paPromise>>
tVars == <<tPc, wavFile, tLanguage, tChunks, transcription, pyStderr, tCode, unlinkCalls, writeCalls, tPromise>>
vVars == <<vPc, durationData, errorOutput, fallbackData, vPromise, vExit>>
aVars == <<aPc, aFilePath, output, aPromise, aProbe, aExit>>
rVars == <<rPc, req, rWavFile, response>>
pVars == <<pFn, pArg, pOut>>
hVars == <<hErr>>
yVars == <<clock, tempFilename, dlPc, dlPromise, ytEnv>>
vars == <<op, spawnLog, deleteCalls, logs, paVars, tVars, vVars, aVars, rVars, pVars, hVars, yVars>>

(***************************************************************************)
(* Bounds                                                                  *)
(***************************************************************************)
MaxStderrLen == 10      \* stderr 'data' arrives while the buffer is shorter than this
MaxStdoutLen == 4       \* stdout 'data' arrives while the buffer is shorter than this
MaxPyStderr == 1        \* stderr 'data' events of one transcription process
PipelineDataLen == 1    \* within a route, 'data' arrives while the buffer is shorter than this

\* the behaviour exercises a whole route, not one exported function
InPipeline == op \in {"uploadRoute", "youtubeRoute"}
\* the behaviour exercises the YouTube route: its duration processes print at
\* most one duration and nothing else, and its duration, conversion and
\* transcription processes exit with 0 or 1
InYoutube == op = "youtubeRoute"

(***************************************************************************)
(* Configuration (src/src/config.js)                                       *)
(***************************************************************************)
audioFormat == "wav"
ffmpegPath == "ffmpeg"
ffmpegOptions == [sampleRate |-> "16000", channels |-> "1", codec |-> "pcm_s16le"]
errorMessages ==
    [fileNotFound  |-> "Input file does not exist",
     ffmpegFailed  |-> "FFmpeg conversion failed",
     wavNotCreated |-> "WAV file was not created during conversion"]

(***************************************************************************)
(* Inputs                                                                  *)
(***************************************************************************)
\* a path is the sequence of its components; the empty path stands for null
InputPaths == {<<"uploads", "a">>, <<"uploads", "b">>}
ExitCodes == {0, 1, 2}
PipelineExitCodes == {0, 1}
StderrChunks == {"warn;"}
SpawnErrors == {"spawn ffmpeg ENOENT"}
Null == <<>>

\* Date.now() readings, and path.join("uploads", `${Date.now()}-youtube.mp3`)
MaxClock == 2           \* the last millisecond in which a request arrives
Timestamps == 1..MaxClock
tempFilenameAt(now) == <<"uploads", ToString(now) \o "-youtube.mp3">>
TempPaths == {tempFilenameAt(now) : now \in Timestamps}
\* every path processAudio is called on: uploads and temporary downloads
AudioPaths == InputPaths \cup TempPaths
Requests == {1, 2}
NoYtEnv == [code |-> 0, checked |-> FALSE, exists |-> FALSE]

\* one logger / console call
LogEntry(level, msg, data) == [level |-> level, msg |-> msg, data |-> data]

(***************************************************************************)
(* Promises: settled at most once; later resolve/reject calls are no-ops   *)
(***************************************************************************)
NoError == [message |-> "", statusCode |-> 0, cleanup |-> Null]
NoPromise == [state |-> "none", path |-> "", error |-> NoError]
PendingPromise == [state |-> "pending", path |-> "", error |-> NoError]

AppError(message, statusCode, cleanup) ==
    [message |-> message, statusCode |-> statusCode, cleanup |-> cleanup]

resolvePath(promise, path) ==
    IF promise.state = "pending"
    THEN [state |-> "resolved", path |-> path, error |-> NoError]
    ELSE promise

\* variant of rejectWith: a later reject replaces an outcome already fixed
rejectWithLatest(promise, err) ==
    [state |-> "rejected", path |-> "", error |-> err]

rejectWith(promise, err) ==
    IF promise.state = "pending"
    THEN [state |-> "rejected", path |-> "", error |-> err]
    ELSE promise

(***************************************************************************)
(* utils/fileUtils.js: deleteFile(filePath)                                *)
(***************************************************************************)
deleteFile(calls, filePath) == Append(calls, filePath)

(***************************************************************************)
(* services/audioProcessor.js: processAudio(filePath)                      *)
(***************************************************************************)
\* variant of wavFileOf: the input path itself
wavFileOfInput(filePath) == filePath

\* const wavFile = `${filePath}.${audioFormat}`
wavFileOf(filePath) == [filePath EXCEPT ![Len(filePath)] = @ \o "." \o audioFormat]

Fired(events, e) == \E k \in 1..Len(events) : events[k] = e

\* the guard-less variant of doCleanup (the earlier revision, l.41-49)
doCleanupUnguarded(filePath, pathToDelete) ==
    /\ cleanupDone' = [cleanupDone EXCEPT ![filePath] = TRUE]
    /\ deleteCalls' = deleteFile(deleteCalls, pathToDelete)

doCleanup(filePath, pathToDelete) ==
    IF ~cleanupDone[filePath]
    THEN /\ cleanupDone' = [cleanupDone EXCEPT ![filePath] = TRUE]
         /\ deleteCalls' = deleteFile(deleteCalls, pathToDelete)
    ELSE UNCHANGED <<cleanupDone, deleteCalls>>

NoEnv == [exists |-> "unchecked", errMessage |-> "", code |-> -1, wavExists |-> FALSE]

\* variant of inputMissing: the existence check is skipped
inputMissingIgnored(exists) == FALSE

\* if (!fs.existsSync(filePath))
inputMissing(exists) == ~exists

\* processAudio(filePath): existence check, spawn, listener registration
processAudio(filePath) ==
    /\ paPc[filePath] = "idle"
    /\ \E exists \in BOOLEAN :
         /\ paEnv' = [paEnv EXCEPT ![filePath].exists = IF exists THEN "yes" ELSE "no"]
         /\ IF inputMissing(exists)
            THEN /\ paPromise' = [paPromise EXCEPT ![filePath] =
                        rejectWith(PendingPromise,
                                   AppError(errorMessages.fileNotFound, 500, filePath))]
                 /\ paPc' = [paPc EXCEPT ![filePath] = "done"]
                 /\ UNCHANGED <<spawnLog, logs>>
            ELSE /\ paPromise' = [paPromise EXCEPT ![filePath] = PendingPromise]
                 /\ paPc' = [paPc EXCEPT ![filePath] = "running"]
                 /\ logs' = Append(logs, LogEntry("info", "Converting MP3 to WAV", <<>>))
                 /\ spawnLog' = Append(spawnLog,
                        [tool |-> ffmpegPath,
                         args |-> <<"-i", filePath,
                                    "-ar", ffmpegOptions.sampleRate,
                                    "-ac", ffmpegOptions.channels,
                                    "-c:a", ffmpegOptions.codec,
                                    wavFileOf(filePath)>>])
    /\ UNCHANGED <<deleteCalls, cleanupDone, ffmpegError, paFired>>

\* a caller invoking the exported processAudio
callProcessAudio(filePath) ==
    /\ op = "processAudio"
    /\ processAudio(filePath)
    /\ UNCHANGED <<op, pVars, hVars, yVars, rVars, tVars, vVars, aVars>>

\* variant of ffmpegStderrData: one diagnostic buffer shared by all invocations
ffmpegStderrDataShared(filePath) ==
    /\ paPc[filePath] = "running"
    /\ paFired[filePath] = <<>>
    /\ Len(ffmpegError[filePath]) < (IF InPipeline THEN PipelineDataLen ELSE MaxStderrLen)
    /\ \E data \in StderrChunks :
         ffmpegError' = [q \in AudioPaths |-> ffmpegError[filePath] \o data]
    /\ UNCHANGED <<op, pVars, hVars, yVars, rVars, spawnLog, deleteCalls, logs, paPc, cleanupDone, paFired, paEnv,
                   paPromise, tVars, vVars, aVars>>

\* ffmpeg.stderr.on("data")
ffmpegStderrData(filePath) ==
    /\ paPc[filePath] = "running"
    /\ paFired[filePath] = <<>>
    /\ Len(ffmpegError[filePath]) < (IF InPipeline THEN PipelineDataLen ELSE MaxStderrLen)
    /\ \E data \in StderrChunks :
         ffmpegError' = [ffmpegError EXCEPT ![filePath] = @ \o data]
    /\ UNCHANGED <<op, pVars, hVars, yVars, rVars, spawnLog, deleteCalls, logs, paPc, cleanupDone, paFired, paEnv,
                   paPromise, tVars, vVars, aVars>>

\* variant of spawnFailure: the native message is dropped
spawnFailureBare(errMessage, filePath) ==
    AppError(errorMessages.ffmpegFailed, 500, filePath)

\* new AppError(`${errorMessages.ffmpegFailed}: ${err.message}`, 500, filePath)
spawnFailure(errMessage, filePath) ==
    AppError(errorMessages.ffmpegFailed \o ": " \o errMessage, 500, filePath)

\* ffmpeg.on("error")
ffmpegOnError(filePath) ==
    /\ paPc[filePath] = "running"
    /\ ~Fired(paFired[filePath], "error")
    /\ \E errMessage \in SpawnErrors :
         /\ doCleanup(filePath, filePath)
         /\ paPromise' = [paPromise EXCEPT ![filePath] =
                rejectWith(@, spawnFailure(errMessage, filePath))]
         /\ paEnv' = [paEnv EXCEPT ![filePath].errMessage = errMessage]
    /\ paFired' = [paFired EXCEPT ![filePath] = Append(@, "error")]
    /\ UNCHANGED <<op, pVars, hVars, yVars, rVars, spawnLog, logs, paPc, ffmpegError, tVars, vVars, aVars>>

\* variant of exitFailure: the separator is appended even to an empty buffer
exitFailureAlwaysDiagnostic(code, stderr, wavPath) ==
    AppError(errorMessages.ffmpegFailed \o " with code " \o ToString(code)
               \o ": " \o stderr,
             500, wavPath)

\* new AppError(`${errorMessages.ffmpegFailed} with code ${code}${ffmpegError ?
\* `: ${ffmpegError}` : ''}`, 500, wavFile)
exitFailure(code, stderr, wavPath) ==
    AppError(errorMessages.ffmpegFailed \o " with code " \o ToString(code)
               \o (IF stderr # "" THEN ": " \o stderr ELSE ""),
             500, wavPath)

\* variant of outputMissing: the output file is not looked for
outputMissingIgnored(wavExists) == FALSE

\* if (!fs.existsSync(wavFile))
outputMissing(wavExists) == ~wavExists

\* ffmpeg.on("close")
ffmpegOnClose(filePath) ==
    /\ paPc[filePath] = "running"
    /\ ~Fired(paFired[filePath], "close")
    /\ \E code \in (IF InYoutube THEN PipelineExitCodes ELSE ExitCodes), wavExists \in BOOLEAN :
         /\ doCleanup(filePath, filePath)
         /\ paEnv' = [paEnv EXCEPT ![filePath].code = code, ![filePath].wavExists = wavExists]
         /\ IF code # 0
            THEN /\ paPromise' = [paPromise EXCEPT ![filePath] =
                        rejectWith(@, exitFailure(code, ffmpegError[filePath],
                                                  wavFileOf(filePath)))]
                 /\ UNCHANGED logs
            ELSE IF outputMissing(wavExists)
            THEN /\ paPromise' = [paPromise EXCEPT ![filePath] =
                        rejectWith(@, AppError(errorMessages.wavNotCreated, 500, Null))]
                 /\ UNCHANGED logs
            ELSE /\ logs' = Append(logs, LogEntry("info", "Conversion complete", <<>>))
                 /\ paPromise' = [paPromise EXCEPT ![filePath] =
                        resolvePath(@, wavFileOf(filePath))]
    /\ paFired' = [paFired EXCEPT ![filePath] = Append(@, "close")]
    /\ UNCHANGED <<op, pVars, hVars, yVars, rVars, spawnLog, paPc, ffmpegError, tVars, vVars, aVars>>

(***************************************************************************)
(* Text helpers (String.prototype.trim, Array.prototype.includes)          *)
(***************************************************************************)
IsSpace(c) == c \in {" ", "\n", "\t", "\r"}

SeqMin(S) == CHOOSE x \in S : \A y \in S : x <= y
SeqMax(S) == CHOOSE x \in S : \A y \in S : x >= y

\* String.prototype.trim on a sequence of characters
trim(str) ==
    LET kept == {k \in 1..Len(str) : ~IsSpace(str[k])}
    IN  IF kept = {} THEN <<>> ELSE SubSeq(str, SeqMin(kept), SeqMax(kept))

(***************************************************************************)
(* services/transcriber.js: transcribeAudio(wavFile, language)             *)
(***************************************************************************)
modelPaths == [en |-> "models/vosk-model-en-us-0.22", es |-> "models/vosk-model-es-0.42"]
TRANSCRIPTIONS_DIR == <<"transcriptions">>
Languages == {"en", "es", "fr", "constructor"}
WavFiles == {wavFileOf(p) : p \in InputPaths}
StdoutChunks == {<<"h", "i">>, <<" ">>, <<"\n">>}
WriteErrors == {"Write failed"}
UnlinkErrors == {"Unlink failed"}

\* a stderr chunk is the sequence of its lines
VoskMarker == "LOG (VoskAPI:"
BenignLine == "LOG (VoskAPI:ReadDataFiles) model loaded"
ErrorLine == "Traceback: transcribe.py failed"
PyStderrChunks == {<<BenignLine>>, <<ErrorLine>>, <<BenignLine, ErrorLine>>}
\* within a route the content of the streams is fixed
PipelineStdoutChunks == {<<"h", "i">>}
PipelinePyStderrChunks == {<<ErrorLine>>}
\* errorMsg.includes(marker) for the lines above
includesMarker(chunk, marker) ==
    \E k \in 1..Len(chunk) : marker = VoskMarker /\ chunk[k] = BenignLine

NoTranscript == [text |-> <<>>, transcriptFile |-> Null]
NoTPromise == [state |-> "none", value |-> NoTranscript, error |-> NoError]
PendingTPromise == [state |-> "pending", value |-> NoTranscript, error |-> NoError]

\* new Error(message): no statusCode (0 stands for undefined), no cleanup
PlainError(message) == [message |-> message, statusCode |-> 0, cleanup |-> Null]

resolveValue(promise, value) ==
    IF promise.state = "pending"
    THEN [promise EXCEPT !.state = "resolved", !.value = value]
    ELSE promise

rejectError(promise, err) ==
    IF promise.state = "pending"
    THEN [promise EXCEPT !.state = "rejected", !.error = err]
    ELSE promise

basename(path) == path[Len(path)]
pathJoin(dir, name) == Append(dir, name)

\* modelPaths is an object literal: besides its own properties, a lookup finds
\* the properties inherited from Object.prototype (of these, the one the
\* inputs name; spawn receives the inherited function converted to a string)
ObjectPrototype == [constructor |-> "function Object() { [native code] }"]

\* obj[key]; "" stands for undefined
getProperty(obj, key) ==
    IF key \in DOMAIN obj THEN obj[key]
    ELSE IF key \in DOMAIN ObjectPrototype THEN ObjectPrototype[key]
    ELSE ""

\* return modelPaths[lang] || modelPaths.en
getModelPath(lang) ==
    IF getProperty(modelPaths, lang) # "" THEN getProperty(modelPaths, lang)
    ELSE modelPaths.en

\* transcribeAudio(wavFile, language): spawn and listener registration
transcribeAudio(wav, language) ==
    /\ tPc = "idle"
    /\ logs' = Append(Append(logs,
                   LogEntry("info", "Transcribing with model: " \o language, <<>>)),
                   LogEntry("info", "Using language model: " \o language, <<>>))
    /\ spawnLog' = Append(spawnLog,
           [tool |-> "./venv/bin/python3",
            args |-> <<"transcribe.py", wav, getModelPath(language)>>])
    /\ wavFile' = wav
    /\ tLanguage' = language
    /\ transcription' = <<>>
    /\ tPromise' = PendingTPromise
    /\ tPc' = "running"
    /\ UNCHANGED <<tChunks, pyStderr, tCode, unlinkCalls, writeCalls>>

\* a caller invoking the exported transcribeAudio
callTranscribeAudio(wav, language) ==
    /\ op = "transcribeAudio"
    /\ transcribeAudio(wav, language)
    /\ UNCHANGED <<op, pVars, hVars, yVars, rVars, deleteCalls, paVars, vVars, aVars>>

\* variant of accumulate: the buffer is assigned, not appended to
accumulateLatest(buffer, data) == data

\* transcription += data.toString()
accumulate(buffer, data) == buffer \o data

\* pythonProcess.stdout.on("data")
pythonStdoutData ==
    /\ tPc = "running"
    /\ Len(transcription) < (IF InPipeline THEN PipelineDataLen ELSE MaxStdoutLen)
    /\ \E data \in (IF InPipeline THEN PipelineStdoutChunks ELSE StdoutChunks) :
         /\ transcription' = accumulate(transcription, data)
         /\ tChunks' = Append(tChunks, data)
    /\ UNCHANGED <<op, pVars, hVars, yVars, rVars, spawnLog, deleteCalls, logs, paVars, vVars, aVars,
                   tPc, wavFile, tLanguage, pyStderr, tCode, unlinkCalls, writeCalls, tPromise>>

\* pythonProcess.stderr.on("data")
pythonStderrData ==
    /\ tPc = "running"
    /\ Len(pyStderr) < MaxPyStderr
    /\ \E errorMsg \in (IF InPipeline THEN PipelinePyStderrChunks ELSE PyStderrChunks) :
         /\ pyStderr' = Append(pyStderr, errorMsg)
         /\ IF ~includesMarker(errorMsg, VoskMarker)
            THEN logs' = Append(logs, LogEntry("error", "Python error", errorMsg))
            ELSE UNCHANGED logs
    /\ UNCHANGED <<op, pVars, hVars, yVars, rVars, spawnLog, deleteCalls, paVars, vVars, aVars,
                   tPc, wavFile, tLanguage, tChunks, transcription, tCode, unlinkCalls,
                   writeCalls, tPromise>>

\* pythonProcess.on("close"), up to the first await: fs.unlink(wavFile) is called
pythonOnClose ==
    /\ tPc = "running"
    /\ \E code \in (IF InYoutube THEN PipelineExitCodes ELSE ExitCodes) : tCode' = code
    /\ unlinkCalls' = Append(unlinkCalls, [path |-> wavFile, outcome |-> "pending"])
    /\ tPc' = "unlinking"
    /\ UNCHANGED <<op, pVars, hVars, yVars, rVars, spawnLog, deleteCalls, logs, paVars, vVars, aVars,
                   wavFile, tLanguage, tChunks, transcription, pyStderr, writeCalls, tPromise>>

\* if (code !== 0)
exitFailedNegativeOnly(code) == code < 0
exitFailed(code) == code # 0

\* the inner catch block: the failed delete is logged and the promise is left alone
onUnlinkErrorPropagated(promise, unlinkError) == rejectError(promise, PlainError(unlinkError))
onUnlinkError(promise, unlinkError) == promise

\* the inner try/catch around `await fs.unlink(wavFile)` and the code check
unlinkSettled ==
    /\ tPc = "unlinking"
    /\ \E ok \in BOOLEAN, unlinkError \in UnlinkErrors :
         LET logsAfter ==
                 IF ok THEN logs
                 ELSE Append(logs, LogEntry("warn",
                          "Failed to delete WAV file: " \o unlinkError, <<>>))
             promiseAfter ==
                 IF ok THEN tPromise ELSE onUnlinkError(tPromise, unlinkError)
             transcriptFile ==
                 pathJoin(TRANSCRIPTIONS_DIR, basename(wavFile) \o ".txt")
         IN  /\ unlinkCalls' = [unlinkCalls EXCEPT ![Len(unlinkCalls)].outcome =
                                    IF ok THEN "ok" ELSE "failed"]
             /\ logs' = logsAfter
             /\ IF exitFailed(tCode)
                THEN /\ tPromise' = rejectError(promiseAfter,
                                       PlainError("Transcription process failed."))
                     /\ tPc' = "done"
                     /\ UNCHANGED writeCalls
                ELSE /\ writeCalls' = Append(writeCalls,
                            [file |-> transcriptFile, data |-> trim(transcription),
                             outcome |-> "pending", error |-> ""])
                     /\ tPc' = "writing"
                     /\ tPromise' = promiseAfter
    /\ UNCHANGED <<op, pVars, hVars, yVars, rVars, spawnLog, deleteCalls, paVars, vVars, aVars,
                   wavFile, tLanguage, tChunks, transcription, pyStderr, tCode>>

\* variant of onWriteError: the error is swallowed
onWriteErrorSwallowed(promise, writeError) == promise

\* the outer catch block: reject(err) with the error fs.writeFile threw
onWriteError(promise, writeError) == rejectError(promise, PlainError(writeError))

\* the continuation after `await fs.writeFile(transcriptFile, ...)`
writeSettled ==
    /\ tPc = "writing"
    /\ \E ok \in BOOLEAN, writeError \in WriteErrors :
         LET call == writeCalls[Len(writeCalls)]
         IN  /\ writeCalls' = [writeCalls EXCEPT ![Len(writeCalls)] =
                                   IF ok THEN [@ EXCEPT !.outcome = "ok"]
                                   ELSE [@ EXCEPT !.outcome = "failed", !.error = writeError]]
             /\ IF ok
                THEN /\ logs' = Append(logs, LogEntry("info", "Transcription saved", call.file))
                     /\ tPromise' = resolveValue(tPromise,
                            [text |-> trim(transcription), transcriptFile |-> call.file])
                ELSE /\ tPromise' = onWriteError(tPromise, writeError)
                     /\ UNCHANGED logs
    /\ tPc' = "done"
    /\ UNCHANGED <<op, pVars, hVars, yVars, rVars, spawnLog, deleteCalls, paVars, vVars, aVars,
                   wavFile, tLanguage, tChunks, transcription, pyStderr, tCode, unlinkCalls>>

\* an 'error' event of the transcription process: no listener is registered,
\* so EventEmitter.emit throws and the exception is uncaught
pythonOnError ==
    /\ tPc = "running"
    /\ tPc' = "crashed"
    /\ UNCHANGED <<op, pVars, hVars, yVars, rVars, spawnLog, deleteCalls, logs, paVars, vVars, aVars,
                   wavFile, tLanguage, tChunks, transcription, pyStderr, tCode, unlinkCalls,
                   writeCalls, tPromise>>

(***************************************************************************)
(* JavaScript numbers.  A finite number is an integer count of 1/Scale     *)
(* seconds (exact decimal arithmetic with FracDigits fractional digits;    *)
(* the inputs below never carry more, and IEEE rounding is not modelled).  *)
(* NaN is a separate value.                                                *)
(***************************************************************************)
FracDigits == 2
Scale == 10 ^ FracDigits

JSNumber(v) == [t |-> "number", nan |-> FALSE, v |-> v]
JSNaN == [t |-> "number", nan |-> TRUE, v |-> 0]
JSUndefined == [t |-> "undefined", nan |-> FALSE, v |-> 0]
JSString == [t |-> "string", nan |-> FALSE, v |-> 0]
typeof(x) == x.t

Digits == {"0", "1", "2", "3", "4", "5", "6", "7", "8", "9"}
DigitVal(c) ==
    CASE c = "0" -> 0 [] c = "1" -> 1 [] c = "2" -> 2 [] c = "3" -> 3 [] c = "4" -> 4
      [] c = "5" -> 5 [] c = "6" -> 6 [] c = "7" -> 7 [] c = "8" -> 8 [] c = "9" -> 9

\* the last index of the maximal run of digits of str that starts at i (i-1 when empty)
DigitRunEnd(str, i) ==
    IF i > Len(str) THEN i - 1
    ELSE SeqMax({j \in (i - 1)..Len(str) : \A k \in i..j : str[k] \in Digits})

\* the decimal value of the digits str[i..j]
RECURSIVE DigitsValue(_, _, _)
DigitsValue(str, i, j) ==
    IF j < i THEN 0 ELSE 10 * DigitsValue(str, i, j - 1) + DigitVal(str[j])

\* the value, in 1/Scale, of the fraction digits str[i..j]
FractionValue(str, i, j) ==
    LET digit(k) == IF i + k <= j THEN DigitVal(str[i + k]) ELSE 0
        RECURSIVE acc(_)
        acc(k) == IF k >= FracDigits THEN 0
                  ELSE digit(k) * (10 ^ (FracDigits - 1 - k)) + acc(k + 1)
    IN  acc(0)

\* parseInt on a string of decimal digits
parseInt(str) == DigitsValue(str, 1, Len(str))

\* parseFloat: leading white space, optional sign, the longest decimal prefix
\* (digits, optionally '.' and digits; or '.' and digits); NaN without one
parseFloat(str) ==
    LET nonSpace == {k \in 1..Len(str) : ~IsSpace(str[k])}
        i0 == IF nonSpace = {} THEN Len(str) + 1 ELSE SeqMin(nonSpace)
        signed == i0 <= Len(str) /\ str[i0] \in {"-", "+"}
        negative == signed /\ str[i0] = "-"
        i1 == IF signed THEN i0 + 1 ELSE i0
        j1 == DigitRunEnd(str, i1)
        hasInt == j1 >= i1
        hasDot == j1 + 1 <= Len(str) /\ str[j1 + 1] = "."
        j2 == IF hasDot THEN DigitRunEnd(str, j1 + 2) ELSE j1
        hasFrac == hasDot /\ j2 >= j1 + 2
        magnitude == DigitsValue(str, i1, j1) * Scale
                       + (IF hasFrac THEN FractionValue(str, j1 + 2, j2) ELSE 0)
    IN  IF ~hasInt /\ ~hasFrac THEN JSNaN
        ELSE JSNumber(IF negative THEN 0 - magnitude ELSE magnitude)

(***************************************************************************)
(* utils/timeFormatter.js: parseDurationToSeconds(durationStr)             *)
(***************************************************************************)
includesChar(str, c) == \E k \in 1..Len(str) : str[k] = c

\* variant of collapseColons: runs of colons are kept
keepColons(str) == str

\* str.replace(/:+/g, ':')
RECURSIVE collapseColons(_)
collapseColons(str) ==
    IF Len(str) < 2 THEN str
    ELSE IF str[1] = ":" /\ str[2] = ":" THEN collapseColons(Tail(str))
    ELSE <<str[1]>> \o collapseColons(Tail(str))

\* str.split(":", limit)
RECURSIVE splitColonUpTo(_, _)
splitColonUpTo(str, limit) ==
    IF limit = 0 THEN <<>>
    ELSE IF ~includesChar(str, ":") THEN <<str>>
    ELSE LET i == SeqMin({k \in 1..Len(str) : str[k] = ":"})
         IN  <<SubSeq(str, 1, i - 1)>>
               \o splitColonUpTo(SubSeq(str, i + 1, Len(str)), limit - 1)

\* variant of splitColon: fields after the third are dropped
splitColonThree(str) == splitColonUpTo(str, 3)

\* str.split(":")
RECURSIVE splitColon(_)
splitColon(str) ==
    IF ~includesChar(str, ":") THEN <<str>>
    ELSE LET i == SeqMin({k \in 1..Len(str) : str[k] = ":"})
         IN  <<SubSeq(str, 1, i - 1)>> \o splitColon(SubSeq(str, i + 1, Len(str)))

\* isNaN(num) ? 0 : num
orZero(num) == IF num.nan THEN 0 ELSE num.v

\* part => { const num = parseFloat(part.trim()); return isNaN(num) ? 0 : num; }
partValue(part) == orZero(parseFloat(trim(part)))

\* normalizedStr.startsWith(':') ? `0${normalizedStr}` : normalizedStr
prefixZero(normalizedStr) ==
    IF normalizedStr # <<>> /\ normalizedStr[1] = ":"
    THEN <<"0">> \o normalizedStr ELSE normalizedStr

\* strParts.map(part => ...)
mapPartValue(strParts) == [k \in 1..Len(strParts) |-> partValue(strParts[k])]

\* the branches on parts.length; bare is what the final parseFloat yields
secondsOfParts(parts, bare) ==
    IF Len(parts) = 3 THEN parts[1] * 3600 + parts[2] * 60 + parts[3]
    ELSE IF Len(parts) = 2 THEN parts[1] * 60 + parts[2]
    ELSE IF Len(parts) = 1 /\ parts[1] > 0 THEN parts[1]
    ELSE bare

\* parseDurationToSeconds after durationStr = durationStr.trim()
parseDurationTrimmed(durationStr) ==
    IF includesChar(durationStr, ":")
    THEN secondsOfParts(
             mapPartValue(splitColon(prefixZero(collapseColons(durationStr)))),
             orZero(parseFloat(durationStr)))
    ELSE orZero(parseFloat(durationStr))

\* the string branch of parseDurationToSeconds; the result is in 1/Scale seconds
parseDurationString(durationStr0) == parseDurationTrimmed(trim(durationStr0))

\* parseDurationToSeconds on a string argument ('' is falsy)
parseDurationToSeconds(durationStr) ==
    IF durationStr = <<>> THEN 0 ELSE parseDurationString(durationStr)

(***************************************************************************)
(* services/videoDurationDetector.js: getVideoDuration(url)                *)
(***************************************************************************)
DefaultVideoDuration == 600
Urls == {"https://youtu.be/v"}
YtStdoutChunks ==
    {<<"1", "0", ":", "3", "0">>,
     <<"\n">>,
     <<"5", ":", "4", "5">>,
     <<"x">>,
     <<"0">>,
     <<"-", "5">>}
YtStderrChunks == {"WARNING: x"}
\* within a route the duration process prints one duration or nothing
PipelineYtStdoutChunks == {<<"5", ":", "4", "5">>}
MaxDurationLen == 2     \* stdout 'data' arrives while the buffer is shorter than this
MaxFallbackStderr == 1  \* stderr 'data' events of one fallback yt-dlp process

NoDPromise == [state |-> "none", value |-> JSUndefined, error |-> NoError]
PendingDPromise == [state |-> "pending", value |-> JSUndefined, error |-> NoError]

\* getVideoDuration(url): spawn of the primary process, listener registration
getVideoDuration(url) ==
    /\ vPc = "idle"
    /\ spawnLog' = Append(spawnLog,
           [tool |-> "yt-dlp", args |-> <<"--print", "duration_string", url>>])
    /\ durationData' = <<>>
    /\ errorOutput' = ""
    /\ vPromise' = PendingDPromise
    /\ vPc' = "primary"
    /\ UNCHANGED <<fallbackData, vExit>>

\* a caller invoking the exported getVideoDuration
callGetVideoDuration(url) ==
    /\ op = "getVideoDuration"
    /\ getVideoDuration(url)
    /\ UNCHANGED <<op, pVars, hVars, yVars, rVars, deleteCalls, logs, paVars, tVars, aVars>>

\* ytDlp.stdout.on("data")
ytDlpStdoutData ==
    /\ vPc = "primary"
    /\ Len(durationData) < (IF InPipeline THEN PipelineDataLen ELSE MaxDurationLen)
    /\ \E data \in (IF InPipeline THEN PipelineYtStdoutChunks ELSE YtStdoutChunks) :
         durationData' = durationData \o data
    /\ UNCHANGED <<op, pVars, hVars, yVars, rVars, spawnLog, deleteCalls, logs, paVars, tVars, aVars,
                   vPc, errorOutput, fallbackData, vPromise, vExit>>

\* ytDlp.stderr.on("data")
ytDlpStderrData ==
    /\ vPc = "primary"
    /\ ~InYoutube
    /\ Len(errorOutput) < MaxStderrLen
    /\ \E errMsg \in YtStderrChunks :
         /\ errorOutput' = errorOutput \o errMsg
         /\ logs' = Append(logs, LogEntry("error", "yt-dlp (duration) error: " \o errMsg, <<>>))
    /\ UNCHANGED <<op, pVars, hVars, yVars, rVars, spawnLog, deleteCalls, paVars, tVars, aVars,
                   vPc, durationData, fallbackData, vPromise, vExit>>

\* fallbackGetDuration(url, resolve, reject): spawn of the second process
fallbackGetDuration(url, logsBefore) ==
    /\ logs' = Append(logsBefore,
                 LogEntry("warn", "Attempting fallback YouTube duration detection", <<>>))
    /\ spawnLog' = Append(spawnLog, [tool |-> "yt-dlp", args |-> <<"--get-duration", url>>])
    /\ fallbackData' = <<>>
    /\ vPc' = "fallback"
    /\ UNCHANGED vPromise

\* if (code === 0 && durationData.trim())
hasOutputInverted(code, data) == code # 0 /\ trim(data) # <<>>
hasOutput(code, data) == code = 0 /\ trim(data) # <<>>

\* if (seconds > 0)
isNonNegative(seconds) == seconds >= 0
isPositive(seconds) == seconds > 0

\* ytDlp.on("close")
ytDlpOnClose ==
    /\ vPc = "primary"
    /\ \E code \in (IF InYoutube THEN PipelineExitCodes ELSE ExitCodes) :
         LET url == spawnLog[Len(spawnLog)].args[3]
             seconds == parseDurationToSeconds(trim(durationData))
         IN  /\ vExit' = Append(vExit, code)
             /\ IF hasOutput(code, durationData)
                THEN IF isPositive(seconds)
                     THEN /\ logs' = Append(Append(logs,
                                LogEntry("debug", "Raw duration from yt-dlp", trim(durationData))),
                                LogEntry("info", "Video duration detected", <<>>))
                          /\ vPromise' = resolveValue(vPromise, JSNumber(seconds))
                          /\ vPc' = "done"
                          /\ UNCHANGED <<spawnLog, fallbackData>>
                     ELSE fallbackGetDuration(url, Append(Append(logs,
                                LogEntry("debug", "Raw duration from yt-dlp", trim(durationData))),
                                LogEntry("error", "Failed to parse duration", trim(durationData))))
                ELSE fallbackGetDuration(url, Append(logs,
                         LogEntry("error", "yt-dlp failed with code " \o ToString(code)
                                              \o ": " \o errorOutput, <<>>)))
    /\ UNCHANGED <<op, pVars, hVars, yVars, rVars, deleteCalls, paVars, tVars, aVars, durationData, errorOutput>>

\* an 'error' event of the primary process: no listener is registered, so
\* EventEmitter.emit throws and the exception is uncaught
ytDlpOnError ==
    /\ vPc = "primary"
    /\ vPc' = "crashed"
    /\ UNCHANGED <<op, pVars, hVars, yVars, rVars, spawnLog, deleteCalls, logs, paVars, tVars, aVars,
                   durationData, errorOutput, fallbackData, vPromise, vExit>>

\* ytDlpFallback.stdout.on("data")
ytDlpFallbackStdoutData ==
    /\ vPc = "fallback"
    /\ ~InYoutube
    /\ Len(fallbackData) < MaxDurationLen
    /\ \E data \in YtStdoutChunks : fallbackData' = fallbackData \o data
    /\ UNCHANGED <<op, pVars, hVars, yVars, rVars, spawnLog, deleteCalls, logs, paVars, tVars, aVars,
                   vPc, durationData, errorOutput, vPromise, vExit>>

FallbackStderrSeen ==
    Cardinality({k \in 1..Len(logs) : logs[k].msg = "Fallback yt-dlp error"})

\* ytDlpFallback.stderr.on("data")
ytDlpFallbackStderrData ==
    /\ vPc = "fallback"
    /\ ~InYoutube
    /\ FallbackStderrSeen < MaxFallbackStderr
    /\ \E data \in YtStderrChunks :
         logs' = Append(logs, LogEntry("error", "Fallback yt-dlp error", <<data>>))
    /\ UNCHANGED <<op, pVars, hVars, yVars, rVars, spawnLog, deleteCalls, paVars, tVars, aVars, vVars>>

\* variants of fallbackSettle: a failed fallback rejects; a parsed value is
\* passed on without the sign check
fallbackSettleRejecting(promise, code, data) ==
    IF code = 0 /\ trim(data) # <<>> /\ parseDurationToSeconds(trim(data)) > 0
    THEN resolveValue(promise, JSNumber(parseDurationToSeconds(trim(data))))
    ELSE rejectError(promise, PlainError("Fallback duration detection failed"))

fallbackSettleUnchecked(promise, code, data) ==
    IF code = 0 /\ trim(data) # <<>>
    THEN resolveValue(promise, JSNumber(parseDurationToSeconds(trim(data))))
    ELSE resolveValue(promise, JSNumber(DefaultVideoDuration * Scale))

\* what the 'close' listener of the fallback process does to the promise
fallbackSettle(promise, code, data) ==
    LET seconds == parseDurationToSeconds(trim(data))
    IN  IF hasOutput(code, data)
        THEN IF isPositive(seconds)
             THEN resolveValue(promise, JSNumber(seconds))
             ELSE resolveValue(promise, JSNumber(DefaultVideoDuration * Scale))
        ELSE resolveValue(promise, JSNumber(DefaultVideoDuration * Scale))

\* ytDlpFallback.on("close")
ytDlpFallbackOnClose ==
    /\ vPc = "fallback"
    /\ \E code \in (IF InYoutube THEN PipelineExitCodes ELSE ExitCodes) :
         /\ vExit' = Append(vExit, code)
         /\ vPromise' = fallbackSettle(vPromise, code, fallbackData)
         /\ logs' =
              IF hasOutput(code, fallbackData)
              THEN IF isPositive(parseDurationToSeconds(trim(fallbackData)))
                   THEN Append(Append(logs,
                          LogEntry("debug", "Fallback raw duration", trim(fallbackData))),
                          LogEntry("info", "Fallback video duration", <<>>))
                   ELSE Append(Append(Append(logs,
                          LogEntry("debug", "Fallback raw duration", trim(fallbackData))),
                          LogEntry("error", "Failed to parse fallback duration", <<>>)),
                          LogEntry("warn", "Using default 10-minute duration estimate", <<>>))
              ELSE Append(Append(logs,
                          LogEntry("error", "Fallback duration detection failed", <<>>)),
                          LogEntry("warn", "Using default 10-minute duration estimate", <<>>))
    /\ vPc' = "done"
    /\ UNCHANGED <<op, pVars, hVars, yVars, rVars, spawnLog, deleteCalls, paVars, tVars, aVars,
                   durationData, errorOutput, fallbackData>>

\* an 'error' event of the fallback process: no listener, uncaught exception
ytDlpFallbackOnError ==
    /\ vPc = "fallback"
    /\ vPc' = "crashed"
    /\ UNCHANGED <<op, pVars, hVars, yVars, rVars, spawnLog, deleteCalls, logs, paVars, tVars, aVars,
                   durationData, errorOutput, fallbackData, vPromise, vExit>>

(***************************************************************************)
(* services/audioDurationDetector.js: getAudioDuration(filePath)           *)
(***************************************************************************)
DefaultAudioDuration == 300
MaxOutputLen == 17      \* stderr 'data' arrives while the buffer is shorter than this
ProbeErrors == {"ffprobe exited with code 1"}

\* the metadata object handed to the ffprobe callback
Metadata(present, hasFormat, duration) ==
    [present |-> present, hasFormat |-> hasFormat, duration |-> duration]
NoMetadata == Metadata(FALSE, FALSE, JSUndefined)
Metadatas ==
    {Metadata(FALSE, FALSE, JSUndefined), Metadata(TRUE, FALSE, JSUndefined)}
      \cup {Metadata(TRUE, TRUE, d) :
              d \in {JSUndefined, JSString, JSNaN, JSNumber(0), JSNumber(0 - Scale),
                     JSNumber(12 * Scale + Scale \div 2), JSNumber(300 * Scale)}}

\* within a route: one metadata object with a duration, one without a format
PipelineMetadatas ==
    {Metadata(TRUE, TRUE, JSNumber(12 * Scale + Scale \div 2)),
     Metadata(TRUE, FALSE, JSUndefined)}

\* chunks of the diagnostic stream of `ffmpeg -i <file>`
FfmpegOutputChunks ==
    {<<"D", "u", "r", "a", "t", "i", "o", "n", ":", " ", "0", "1", ":", "0", "2", ":">>,
     <<"0", "3", ".", "5", "0", ",", " ", "s", "t", "a", "r", "t">>,
     <<"D", "u", "r", "a", "t", "i", "o", "n", ":", " ", "N", "/", "A">>,
     <<"D", "u", "r", "a", "t", "i", "o", "n", ":", " ", "0", "0", ":", "0", "0", ":", "0", "7", ".", "2", "5">>}

PipelineOutputChunks ==
    {<<"D", "u", "r", "a", "t", "i", "o", "n", ":", " ", "0", "0", ":", "0", "0", ":", "0", "7", ".", "2", "5">>}

DurationPrefix == <<"D", "u", "r", "a", "t", "i", "o", "n", ":", " ">>

NoMatch == [ok |-> FALSE, g1 |-> <<>>, g2 |-> <<>>, g3 |-> <<>>]

\* whether /Duration: ([0-9]+):([0-9]+):([0-9]+\.[0-9]+)/ matches str at index i,
\* and the capture groups of that match
DurationMatchAt(str, i) ==
    LET a1 == i + Len(DurationPrefix)
        e1 == DigitRunEnd(str, a1)
        e2 == DigitRunEnd(str, e1 + 2)
        e3 == DigitRunEnd(str, e2 + 2)
        e4 == DigitRunEnd(str, e3 + 2)
        ok == /\ a1 - 1 <= Len(str)
              /\ SubSeq(str, i, a1 - 1) = DurationPrefix
              /\ e1 >= a1 /\ e1 + 1 <= Len(str) /\ str[e1 + 1] = ":"
              /\ e2 >= e1 + 2 /\ e2 + 1 <= Len(str) /\ str[e2 + 1] = ":"
              /\ e3 >= e2 + 2 /\ e3 + 1 <= Len(str) /\ str[e3 + 1] = "."
              /\ e4 >= e3 + 2
    IN  IF ok
        THEN [ok |-> TRUE,
              g1 |-> SubSeq(str, a1, e1),
              g2 |-> SubSeq(str, e1 + 2, e2),
              g3 |-> SubSeq(str, e2 + 2, e4)]
        ELSE NoMatch

\* output.match(...): the leftmost match, or null
durationMatch(str) ==
    LET hits == {i \in 1..Len(str) : DurationMatchAt(str, i).ok}
    IN  IF hits = {} THEN NoMatch
        ELSE DurationMatchAt(str, SeqMin(hits))

\* getAudioDuration(filePath): the ffprobe call
getAudioDuration(filePath) ==
    /\ aPc = "idle"
    /\ aPromise' = PendingDPromise
    /\ aFilePath' = filePath
    /\ aPc' = "probing"
    /\ UNCHANGED <<output, aProbe, aExit>>

\* a caller invoking the exported getAudioDuration
callGetAudioDuration(filePath) ==
    /\ op = "getAudioDuration"
    /\ getAudioDuration(filePath)
    /\ UNCHANGED <<op, pVars, hVars, yVars, rVars, spawnLog, deleteCalls, logs, paVars, tVars, vVars>>

\* fallbackDurationDetection(filePath, resolve): spawn and listener registration
fallbackDurationDetection(filePath, logsBefore) ==
    /\ logs' = Append(logsBefore,
                 LogEntry("warn", "Attempting fallback duration detection method", <<>>))
    /\ spawnLog' = Append(spawnLog, [tool |-> "ffmpeg", args |-> <<"-i", filePath>>])
    /\ output' = <<>>
    /\ aPc' = "fallback"
    /\ UNCHANGED aPromise

\* variant of probeSettle: the duration is floored
probeSettleFloored(promise, metadata) ==
    IF ~metadata.present \/ ~metadata.hasFormat \/ typeof(metadata.duration) # "number"
    THEN resolveValue(promise, JSNumber(DefaultAudioDuration * Scale))
    ELSE resolveValue(promise,
             [metadata.duration EXCEPT !.v = (@ \div Scale) * Scale])

\* what the ffprobe callback does with valid or invalid metadata
probeSettle(promise, metadata) ==
    IF ~metadata.present \/ ~metadata.hasFormat \/ typeof(metadata.duration) # "number"
    THEN resolveValue(promise, JSNumber(DefaultAudioDuration * Scale))
    ELSE resolveValue(promise, metadata.duration)

\* the callback passed to ffmpeg.ffprobe
ffprobeCallback ==
    /\ aPc = "probing"
    /\ \/ \E errMessage \in ProbeErrors :
            /\ aProbe' = [called |-> TRUE, err |-> TRUE, metadata |-> NoMetadata]
            /\ fallbackDurationDetection(aFilePath,
                Append(logs, LogEntry("error", "ffprobe error: " \o errMessage, <<>>)))
       \/ \E metadata \in (IF InPipeline THEN PipelineMetadatas ELSE Metadatas) :
            /\ aProbe' = [called |-> TRUE, err |-> FALSE, metadata |-> metadata]
            /\ aPromise' = probeSettle(aPromise, metadata)
            /\ logs' = Append(logs,
                 IF ~metadata.present \/ ~metadata.hasFormat
                      \/ typeof(metadata.duration) # "number"
                 THEN LogEntry("warn", "Invalid metadata format", <<>>)
                 ELSE LogEntry("info", "Audio duration detected", <<>>))
            /\ aPc' = "done"
            /\ UNCHANGED <<spawnLog, output>>
    /\ UNCHANGED <<op, pVars, hVars, yVars, rVars, deleteCalls, paVars, tVars, vVars, aFilePath, aExit>>

\* ffmpeg_process.stderr.on('data')
ffmpegProcessStderrData ==
    /\ aPc = "fallback"
    /\ Len(output) < (IF InPipeline THEN PipelineDataLen ELSE MaxOutputLen)
    /\ \E data \in (IF InPipeline THEN PipelineOutputChunks ELSE FfmpegOutputChunks) :
         output' = output \o data
    /\ UNCHANGED <<op, pVars, hVars, yVars, rVars, spawnLog, deleteCalls, logs, paVars, tVars, vVars,
                   aPc, aFilePath, aPromise, aProbe, aExit>>

\* variant of audioFallbackSettle: the stream is scanned only after a clean exit
audioFallbackSettleOnSuccessOnly(promise, code, str) ==
    LET m == durationMatch(str)
    IN  IF code = 0 /\ m.ok
        THEN resolveValue(promise, JSNumber(parseInt(m.g1) * 3600 * Scale
                 + parseInt(m.g2) * 60 * Scale + parseFloat(m.g3).v))
        ELSE resolveValue(promise, JSNumber(DefaultAudioDuration * Scale))

\* what the 'close' listener of the fallback process does to the promise
audioFallbackSettle(promise, code, str) ==
    LET m == durationMatch(str)
        hours == parseInt(m.g1)
        minutes == parseInt(m.g2)
        seconds == parseFloat(m.g3).v
        totalSeconds == hours * 3600 * Scale + minutes * 60 * Scale + seconds
    IN  IF m.ok
        THEN resolveValue(promise, JSNumber(totalSeconds))
        ELSE resolveValue(promise, JSNumber(DefaultAudioDuration * Scale))

\* ffmpeg_process.on('close')
ffmpegProcessOnClose ==
    /\ aPc = "fallback"
    /\ \E code \in ExitCodes :
         /\ aExit' = Append(aExit, code)
         /\ aPromise' = audioFallbackSettle(aPromise, code, output)
    /\ logs' = Append(logs,
         IF durationMatch(output).ok
         THEN LogEntry("info", "Fallback duration detected", <<>>)
         ELSE LogEntry("error", "Failed to extract duration from fallback method", <<>>))
    /\ aPc' = "done"
    /\ UNCHANGED <<op, pVars, hVars, yVars, rVars, spawnLog, deleteCalls, paVars, tVars, vVars, aFilePath, output, aProbe>>

\* an 'error' event of the fallback process: no listener is registered, so
\* EventEmitter.emit throws and the exception is uncaught
ffmpegProcessOnError ==
    /\ aPc = "fallback"
    /\ aPc' = "crashed"
    /\ UNCHANGED <<op, pVars, hVars, yVars, rVars, spawnLog, deleteCalls, logs, paVars, tVars, vVars,
                   aFilePath, output, aPromise, aProbe, aExit>>

(***************************************************************************)
(* utils/timeFormatter.js: formatTime(seconds); the fields are whole numbers*)
(***************************************************************************)
NoTime == [hours |-> 0, minutes |-> 0, seconds |-> 0, totalSeconds |-> 0]

\* typeof null === 'object'
JSNull == [t |-> "object", nan |-> FALSE, v |-> 0]

\* variant of MathFloor: Math.round
MathRound(v) == (v + Scale \div 2) \div Scale

\* Math.floor of a number given in 1/Scale
MathFloor(v) == v \div Scale

\* variant of invalidSeconds: negative numbers pass
invalidSecondsFalsyOnly(x) == x.t # "number" \/ x.nan \/ x.v = 0

\* !seconds || isNaN(seconds) || seconds < 0, for a number, NaN, undefined,
\* null or a string that does not convert to a number
invalidSeconds(x) == x.t # "number" \/ x.nan \/ x.v = 0 \/ x.v < 0

\* variant of formatTime: the minutes are not reduced modulo the hour
formatTimeWholeMinutes(x) ==
    LET seconds == IF invalidSeconds(x) THEN 0 ELSE x.v
    IN  [hours |-> seconds \div (3600 * Scale),
         minutes |-> seconds \div (60 * Scale),
         seconds |-> MathFloor(seconds % (60 * Scale)),
         totalSeconds |-> MathFloor(seconds)]

formatTime(x) ==
    LET seconds == IF invalidSeconds(x) THEN 0 ELSE x.v
    IN  [hours |-> seconds \div (3600 * Scale),
         minutes |-> (seconds % (3600 * Scale)) \div (60 * Scale),
         seconds |-> MathFloor(seconds % (60 * Scale)),
         totalSeconds |-> MathFloor(seconds)]

(***************************************************************************)
(* services/processingTimeEstimator.js                                     *)
(***************************************************************************)
fixedOverheadSeconds == 60
processingSpeedFactor == 30
FallbackDurationSeconds == 60

\* variant of calculateEstimatedProcessingTime: the quotient is rounded down
calculateEstimatedProcessingTimeFloor(x) ==
    LET durationSeconds ==
            IF x.t # "number" \/ x.nan \/ x.v = 0 \/ x.v <= 0
            THEN FallbackDurationSeconds * Scale ELSE x.v
        quotient == durationSeconds \div (processingSpeedFactor * Scale)
    IN  formatTime(JSNumber((fixedOverheadSeconds + quotient) * Scale))

calculateEstimatedProcessingTime(x) ==
    LET durationSeconds ==
            IF x.t # "number" \/ x.nan \/ x.v = 0 \/ x.v <= 0
            THEN FallbackDurationSeconds * Scale ELSE x.v
        \* Math.ceil(durationSeconds / processingSpeedFactor)
        ceiling == (durationSeconds + processingSpeedFactor * Scale - 1)
                     \div (processingSpeedFactor * Scale)
    IN  formatTime(JSNumber((fixedOverheadSeconds + ceiling) * Scale))

NoDifference ==
    [timeObject |-> NoTime, isFaster |-> FALSE, differenceText |-> "",
     differenceSeconds |-> 0]

\* the estimate handed to calculateTimeDifference: a number or a time object
EstimateNumber(v) == [isObject |-> FALSE, number |-> v, timeObject |-> NoTime]
EstimateObject(time) == [isObject |-> TRUE, number |-> 0, timeObject |-> time]

\* variant of isFasterThan: a tie counts as slower
isFasterStrictly(actualSeconds, estimatedTotal) == actualSeconds < estimatedTotal

\* const isFaster = actualSeconds <= estimatedTotal
isFasterThan(actualSeconds, estimatedTotal) == actualSeconds <= estimatedTotal

\* variant of differenceTextOf: every unit is always shown
differenceTextInFull(difference, isFaster) ==
    ToString(difference.hours) \o "h " \o ToString(difference.minutes) \o "m "
      \o ToString(difference.seconds) \o "s "
      \o (IF isFaster THEN "faster" ELSE "slower") \o " than estimated"

\* the if / else if / else that builds differenceText
differenceTextOf(difference, isFaster) ==
    LET direction == IF isFaster THEN "faster" ELSE "slower"
    IN  IF difference.hours > 0
        THEN ToString(difference.hours) \o "h " \o ToString(difference.minutes) \o "m "
               \o ToString(difference.seconds) \o "s " \o direction \o " than estimated"
        ELSE IF difference.minutes > 0
        THEN ToString(difference.minutes) \o "m " \o ToString(difference.seconds) \o "s "
               \o direction \o " than estimated"
        ELSE ToString(difference.seconds) \o "s " \o direction \o " than estimated"

\* calculateTimeDifference(actualSeconds, estimatedSeconds); numbers in 1/Scale
calculateTimeDifference(actualSeconds, estimatedSeconds) ==
    LET estimatedTotal == IF estimatedSeconds.isObject
                          THEN estimatedSeconds.timeObject.totalSeconds * Scale
                          ELSE estimatedSeconds.number
        signed == actualSeconds - estimatedTotal
        differenceSeconds == IF signed < 0 THEN 0 - signed ELSE signed
        difference == formatTime(JSNumber(differenceSeconds))
        isFaster == isFasterThan(actualSeconds, estimatedTotal)
    IN  [timeObject |-> difference,
         isFaster |-> isFaster,
         differenceText |-> differenceTextOf(difference, isFaster),
         differenceSeconds |-> differenceSeconds]

(***************************************************************************)
(* utils/errorHandler.js: errorHandler(err, req, res, next)                *)
(***************************************************************************)
NoResponse ==
    [sent |-> FALSE, sends |-> 0, status |-> 0, success |-> FALSE, message |-> "",
     language |-> "", audioDuration |-> NoTime, videoDuration |-> NoTime,
     estimatedProcessingTime |-> NoTime, transcription |-> NoTranscript]

\* a value of err.cleanup: one path (null when absent) or an array of paths
PathValue(path) == [array |-> FALSE, path |-> path, items |-> <<>>]
ArrayValue(items) == [array |-> TRUE, path |-> Null, items |-> items]

\* a path with a NUL character: fs.access throws on it before any file access,
\* so deleteFile(path) throws
InvalidPaths == {<<"uploads", "NUL">>}
deleteThrows(filePath) == filePath \in InvalidPaths

\* if (err.cleanup): null is falsy, a path and an array (an empty one too) are not
hasCleanup(cleanup) == cleanup.array \/ cleanup.path # Null

\* variant of cleanupFiles: of an array only the first element is taken
cleanupFilesFirst(cleanup) ==
    IF ~cleanup.array THEN <<cleanup.path>>
    ELSE IF cleanup.items = <<>> THEN <<>>
    ELSE <<cleanup.items[1]>>

\* const files = Array.isArray(err.cleanup) ? err.cleanup : [err.cleanup]
cleanupFiles(cleanup) == IF cleanup.array THEN cleanup.items ELSE <<cleanup.path>>

\* files.forEach(file => deleteFile(file)): the calls made, up to and including
\* the first one that throws
RECURSIVE forEachDeleteFile(_, _)
forEachDeleteFile(calls, files) ==
    IF files = <<>> THEN calls
    ELSE IF deleteThrows(files[1]) THEN deleteFile(calls, files[1])
    ELSE forEachDeleteFile(deleteFile(calls, files[1]), Tail(files))

forEachThrows(files) == \E k \in 1..Len(files) : deleteThrows(files[k])

\* variant of reachesResponse: an exception of the cleanup leaves the handler
reachesResponseUncaught(cleanupThrew) == ~cleanupThrew

\* try { ...cleanup... } catch (cleanupError) { logger.warn(...) }: control
\* reaches res.status(statusCode).json(...) whether or not the cleanup threw
reachesResponse(cleanupThrew) == TRUE

\* the error is logged, the files of err.cleanup and then req.file.path are
\* deleted, and the failure is sent; calls are the deleteFile calls made so
\* far.  req.file.path is a name multer generated, which fs.access accepts.
errorHandler(err, reqFilePath, calls) ==
    /\ hErr' = err
    /\ logs' =
         IF hasCleanup(err.cleanup) /\ forEachThrows(cleanupFiles(err.cleanup))
         THEN Append(Append(logs, LogEntry("error",
                  "Error [" \o ToString(IF err.statusCode # 0 THEN err.statusCode ELSE 500)
                     \o "]: " \o err.message, <<>>)),
                  LogEntry("warn", "Failed to clean up files", <<>>))
         ELSE Append(logs, LogEntry("error",
                  "Error [" \o ToString(IF err.statusCode # 0 THEN err.statusCode ELSE 500)
                     \o "]: " \o err.message, <<>>))
    /\ IF reachesResponse(hasCleanup(err.cleanup) /\ forEachThrows(cleanupFiles(err.cleanup)))
       THEN /\ deleteCalls' =
                 IF hasCleanup(err.cleanup)
                 THEN IF reqFilePath # Null
                      THEN deleteFile(forEachDeleteFile(calls, cleanupFiles(err.cleanup)),
                                      reqFilePath)
                      ELSE forEachDeleteFile(calls, cleanupFiles(err.cleanup))
                 ELSE IF reqFilePath # Null
                      THEN deleteFile(calls, reqFilePath)
                      ELSE calls
            /\ response' = [NoResponse EXCEPT !.sent = TRUE, !.sends = response.sends + 1,
                               !.status = IF err.statusCode # 0 THEN err.statusCode ELSE 500,
                               !.message = err.message]
       ELSE /\ deleteCalls' = forEachDeleteFile(calls, cleanupFiles(err.cleanup))
            /\ UNCHANGED response

\* next(error) in a route: Express hands the error to errorHandler; the
\* errors of the services carry one path (or null) as their cleanup target
next(error, reqFilePath, calls) ==
    errorHandler([error EXCEPT !.cleanup = PathValue(@)], reqFilePath, calls)

\* req.file.path, req.body.language, req.body.url ("" when absent)
NoRequest == [file |-> Null, language |-> "", url |-> ""]

\* errorHandler called on its own
HandlerMessages == {"Upload error"}
HandlerStatusCodes == {0, 400, 404}     \* 0 is an absent err.statusCode
HandlerCleanups ==
    {PathValue(Null), PathValue(<<"uploads", "a">>), PathValue(<<"uploads", "NUL">>),
     ArrayValue(<<>>),
     ArrayValue(<< <<"uploads", "a">>, <<"uploads", "b">> >>),
     ArrayValue(<< <<"uploads", "a">>, <<"uploads", "NUL">>, <<"uploads", "b">> >>),
     ArrayValue(<< <<"uploads", "NUL">> >>)}
HandlerReqFiles == {Null, <<"uploads", "a">>, <<"uploads", "c">>}
HandlerErrors ==
    {AppError(message, statusCode, cleanup) :
        message \in HandlerMessages, statusCode \in HandlerStatusCodes,
        cleanup \in HandlerCleanups}
NoHandled == [message |-> "", statusCode |-> 0, cleanup |-> PathValue(Null)]

callErrorHandler(err, reqFilePath) ==
    /\ op = "errorHandler"
    /\ hErr = NoHandled
    /\ req' = [NoRequest EXCEPT !.file = reqFilePath]
    /\ errorHandler(err, reqFilePath, deleteCalls)
    /\ UNCHANGED <<op, pVars, yVars, spawnLog, rPc, rWavFile, paVars, tVars, vVars, aVars>>

(***************************************************************************)
(* routes/transcriptionRoutes.js: router.post("/")                         *)
(* The handler is an async function: each await is a point where it        *)
(* suspends until the awaited promise has settled.                         *)
(***************************************************************************)
defaultLanguage == "en"
ReqFiles == {<<"uploads", "a">>}
ReqLanguages == {"", "es"}      \* "" is an absent req.body.language

settled(promise) == promise.state \in {"resolved", "rejected"}

\* variant of throws: the rejection is not noticed and the handler goes on
throwsNever(promise) == FALSE

\* `await promise` throws into the catch block when the promise is rejected
throws(promise) == promise.state = "rejected"

\* variant of attachCleanup: the local wavFile is attached even while null
attachCleanupAlways(error, wav) == [error EXCEPT !.cleanup = wav]

\* catch (error) { if (wavFile) { error.cleanup = wavFile; } ... }
attachCleanup(error, wav) == IF wav # Null THEN [error EXCEPT !.cleanup = wav] ELSE error

\* the handler up to its first await: processAudio(req.file.path)
uploadRoute(file, language) ==
    /\ op = "uploadRoute"
    /\ rPc = "idle"
    /\ req' = [NoRequest EXCEPT !.file = file, !.language = language]
    /\ processAudio(file)
    /\ rPc' = "awaitProcessAudio"
    /\ UNCHANGED <<op, pVars, hVars, yVars, rWavFile, response, tVars, vVars, aVars>>

\* from `wavFile = await processAudio(...)` to `await getAudioDuration(wavFile)`
afterProcessAudio ==
    /\ rPc = "awaitProcessAudio"
    /\ settled(paPromise[req.file])
    /\ IF throws(paPromise[req.file])
       THEN \* catch (error): wavFile is still null; next(error)
            /\ next(attachCleanup(paPromise[req.file].error, rWavFile), req.file, deleteCalls)
            /\ rPc' = "failed"
            /\ UNCHANGED <<rWavFile, aVars>>
       ELSE /\ rWavFile' = paPromise[req.file].path
            /\ getAudioDuration(paPromise[req.file].path)
            /\ rPc' = "awaitGetAudioDuration"
            /\ UNCHANGED <<deleteCalls, logs, response, hErr>>
    /\ UNCHANGED <<op, pVars, yVars, req, spawnLog, paVars, tVars, vVars>>

\* from `durationSeconds = await getAudioDuration(...)` to
\* `await transcribeAudio(wavFile, language)`
afterGetAudioDuration ==
    /\ rPc = "awaitGetAudioDuration"
    /\ settled(aPromise)
    /\ IF throws(aPromise)
       THEN \* catch (error): error.cleanup = wavFile; next(error)
            /\ next(attachCleanup(aPromise.error, rWavFile), req.file, deleteCalls)
            /\ rPc' = "failed"
            /\ UNCHANGED <<spawnLog, tVars>>
       ELSE /\ transcribeAudio(rWavFile,
                    IF req.language # "" THEN req.language ELSE defaultLanguage)
            /\ rPc' = "awaitTranscribeAudio"
            /\ UNCHANGED <<deleteCalls, response, hErr>>
    /\ UNCHANGED <<op, pVars, yVars, req, rWavFile, paVars, vVars, aVars>>

\* from `transcription = await transcribeAudio(...)` to res.json(...); the
\* timing fields of the body that depend on the clock are left out
afterTranscribeAudio ==
    /\ rPc = "awaitTranscribeAudio"
    /\ settled(tPromise)
    /\ IF throws(tPromise)
       THEN \* catch (error): error.cleanup = wavFile; next(error)
            /\ next(attachCleanup(tPromise.error, rWavFile), req.file, deleteCalls)
            /\ rPc' = "failed"
       ELSE /\ response' =
                 [NoResponse EXCEPT
                    !.sent = TRUE, !.sends = response.sends + 1, !.status = 200,
                    !.success = TRUE,
                    !.language = IF req.language # "" THEN req.language ELSE defaultLanguage,
                    !.audioDuration = formatTime(aPromise.value),
                    !.estimatedProcessingTime = calculateEstimatedProcessingTime(aPromise.value),
                    !.transcription = tPromise.value]
            /\ rPc' = "responded"
            /\ UNCHANGED <<deleteCalls, logs, hErr>>
    /\ UNCHANGED <<op, pVars, yVars, req, rWavFile, spawnLog, paVars, tVars, vVars, aVars>>

(***************************************************************************)
(* routes/youtubeTranscriptionRoutes.js: downloadAudioWithYtDlp and        *)
(* router.post("/").  Request 1 is followed through the whole handler.     *)
(* Request 2 arrives while request 1 waits for a duration process that has *)
(* reported nothing yet, and is followed up to its first await: its own    *)
(* duration process reports nothing in the behaviours considered.          *)
(***************************************************************************)
ReqUrls == {"", "https://youtu.be/v"}      \* "" is an absent req.body.url
YoutubeLanguages == {""}                   \* req.body.language is absent
\* request 1 arrives in the first millisecond, request 2 in the same or a later one
FirstTimestamps == {1}

\* if (!url)
missingUrl(url) == url = ""

\* variant of downloadFailed: only exit code 1 counts as a failure
downloadFailedOnOne(code) == code = 1

\* if (code === 0) { resolve(); } else { reject(...) }
downloadFailed(code) == code # 0

\* downloadAudioWithYtDlp(url, outputPath): spawn and listener registration
downloadAudioWithYtDlp(url, outputPath) ==
    /\ spawnLog' = Append(spawnLog,
           [tool |-> "yt-dlp", args |-> <<"-f", "bestaudio", "-o", outputPath, url>>])
    /\ dlPromise' = PendingPromise
    /\ dlPc' = "running"

DownloadOutputSeen ==
    Cardinality({k \in 1..Len(logs) : logs[k].msg \in {"yt-dlp", "yt-dlp error"}})

\* ytDlp.stdout.on("data") of the download
downloadStdoutData ==
    /\ dlPc = "running"
    /\ DownloadOutputSeen < PipelineDataLen
    /\ logs' = Append(logs, LogEntry("debug", "yt-dlp", <<>>))
    /\ UNCHANGED <<op, pVars, hVars, yVars, rVars, spawnLog, deleteCalls, paVars, tVars, vVars,
                   aVars>>

\* ytDlp.stderr.on("data") of the download
downloadStderrData ==
    /\ dlPc = "running"
    /\ DownloadOutputSeen < PipelineDataLen
    /\ logs' = Append(logs, LogEntry("warn", "yt-dlp error", <<>>))
    /\ UNCHANGED <<op, pVars, hVars, yVars, rVars, spawnLog, deleteCalls, paVars, tVars, vVars,
                   aVars>>

\* ytDlp.on("close") of the download
downloadOnClose ==
    /\ dlPc = "running"
    /\ \E code \in ExitCodes :
         /\ ytEnv' = [ytEnv EXCEPT !.code = code]
         /\ dlPromise' =
              IF downloadFailed(code)
              THEN rejectWith(dlPromise,
                       AppError("yt-dlp exited with code " \o ToString(code), 500, Null))
              ELSE resolvePath(dlPromise, "")
    /\ dlPc' = "done"
    /\ UNCHANGED <<op, pVars, hVars, rVars, spawnLog, deleteCalls, logs, paVars, tVars, vVars,
                   aVars, clock, tempFilename>>

\* an 'error' event of the download process: no listener is registered, so
\* EventEmitter.emit throws and the exception is uncaught
downloadOnError ==
    /\ dlPc = "running"
    /\ dlPc' = "crashed"
    /\ UNCHANGED <<op, pVars, hVars, rVars, spawnLog, deleteCalls, logs, paVars, tVars, vVars,
                   aVars, clock, tempFilename, dlPromise, ytEnv>>

\* catch (error) { if (fs.existsSync(tempFilename)) deleteFile(tempFilename); next(error) }
youtubeCatch(error) ==
    /\ \E exists \in BOOLEAN :
         /\ ytEnv' = [ytEnv EXCEPT !.checked = TRUE, !.exists = exists]
         /\ next(error, Null,
                 IF exists THEN deleteFile(deleteCalls, tempFilename[1]) ELSE deleteCalls)
    /\ rPc' = "failed"

\* the handler of request 1 up to its first await: getVideoDuration(url)
youtubeRoute(url, language, now) ==
    /\ op = "youtubeRoute"
    /\ rPc = "idle"
    /\ req' = [NoRequest EXCEPT !.url = url, !.language = language]
    /\ IF missingUrl(url)
       THEN /\ next(AppError("YouTube URL is required.", 400, Null), Null, deleteCalls)
            /\ rPc' = "failed"
            /\ UNCHANGED <<spawnLog, vVars, clock, tempFilename>>
       ELSE /\ clock' = now
            /\ tempFilename' = [tempFilename EXCEPT ![1] = tempFilenameAt(now)]
            /\ getVideoDuration(url)
            /\ rPc' = "youtubeAwaitGetVideoDuration"
            /\ UNCHANGED <<deleteCalls, logs, response, hErr>>
    /\ UNCHANGED <<op, pVars, rWavFile, paVars, tVars, aVars, dlPc, dlPromise, ytEnv>>

\* the handler of request 2 up to its first await
youtubeRouteAgain(url, now) ==
    /\ op = "youtubeRoute"
    /\ rPc = "youtubeAwaitGetVideoDuration"
    /\ vPc = "primary" /\ durationData = <<>> /\ errorOutput = ""
    /\ tempFilename[2] = Null
    /\ ~missingUrl(url)
    /\ now >= clock
    /\ clock' = now
    /\ tempFilename' = [tempFilename EXCEPT ![2] = tempFilenameAt(now)]
    /\ spawnLog' = Append(spawnLog,
           [tool |-> "yt-dlp", args |-> <<"--print", "duration_string", url>>])
    /\ UNCHANGED <<op, pVars, hVars, rVars, deleteCalls, logs, paVars, tVars, vVars, aVars,
                   dlPc, dlPromise, ytEnv>>

\* from `durationSeconds = await getVideoDuration(url)` over formatTime and
\* calculateEstimatedProcessingTime to `await downloadAudioWithYtDlp(...)`
afterGetVideoDuration ==
    /\ rPc = "youtubeAwaitGetVideoDuration"
    /\ settled(vPromise)
    /\ IF throws(vPromise)
       THEN /\ youtubeCatch(vPromise.error)
            /\ UNCHANGED <<spawnLog, dlPc, dlPromise>>
       ELSE /\ downloadAudioWithYtDlp(req.url, tempFilename[1])
            /\ rPc' = "youtubeAwaitDownload"
            /\ UNCHANGED <<deleteCalls, logs, response, hErr, ytEnv>>
    /\ UNCHANGED <<op, pVars, req, rWavFile, paVars, tVars, vVars, aVars, clock, tempFilename>>

\* from `await downloadAudioWithYtDlp(...)` to `await processAudio(tempFilename)`
afterDownload ==
    /\ rPc = "youtubeAwaitDownload"
    /\ settled(dlPromise)
    /\ IF throws(dlPromise)
       THEN /\ youtubeCatch(dlPromise.error)
            /\ UNCHANGED <<spawnLog, paVars>>
       ELSE /\ processAudio(tempFilename[1])
            /\ rPc' = "youtubeAwaitProcessAudio"
            /\ UNCHANGED <<response, hErr, ytEnv>>
    /\ UNCHANGED <<op, pVars, req, rWavFile, tVars, vVars, aVars, clock, tempFilename, dlPc,
                   dlPromise>>

\* from `wavFile = await processAudio(tempFilename)` to
\* `await transcribeAudio(wavFile, transcriptionLanguage)`
afterYoutubeProcessAudio ==
    /\ rPc = "youtubeAwaitProcessAudio"
    /\ settled(paPromise[tempFilename[1]])
    /\ IF throws(paPromise[tempFilename[1]])
       THEN /\ youtubeCatch(paPromise[tempFilename[1]].error)
            /\ UNCHANGED <<spawnLog, rWavFile, tVars>>
       ELSE /\ rWavFile' = paPromise[tempFilename[1]].path
            /\ transcribeAudio(paPromise[tempFilename[1]].path,
                    IF req.language # "" THEN req.language ELSE defaultLanguage)
            /\ rPc' = "youtubeAwaitTranscribeAudio"
            /\ UNCHANGED <<deleteCalls, response, hErr, ytEnv>>
    /\ UNCHANGED <<op, pVars, req, paVars, vVars, aVars, clock, tempFilename, dlPc, dlPromise>>

\* from `transcription = await transcribeAudio(...)` to res.json(...); the
\* timing fields of the body that depend on the clock are left out
afterYoutubeTranscribeAudio ==
    /\ rPc = "youtubeAwaitTranscribeAudio"
    /\ settled(tPromise)
    /\ IF throws(tPromise)
       THEN youtubeCatch(tPromise.error)
       ELSE /\ response' =
                 [NoResponse EXCEPT
                    !.sent = TRUE, !.sends = response.sends + 1, !.status = 200,
                    !.success = TRUE,
                    !.language = IF req.language # "" THEN req.language ELSE defaultLanguage,
                    !.videoDuration = formatTime(vPromise.value),
                    !.estimatedProcessingTime = calculateEstimatedProcessingTime(vPromise.value),
                    !.transcription = tPromise.value]
            /\ rPc' = "responded"
            /\ UNCHANGED <<deleteCalls, logs, hErr, ytEnv>>
    /\ UNCHANGED <<op, pVars, req, rWavFile, spawnLog, paVars, tVars, vVars, aVars, clock,
                   tempFilename, dlPc, dlPromise>>

(***************************************************************************)
(* The exported time utilities called on their own: parseDurationToSeconds *)
(* and formatTime (utils/timeFormatter.js), calculateEstimatedProcessing-  *)
(* Time and calculateTimeDifference (services/processingTimeEstimator.js). *)
(* A call chain is one call of the function chosen initially, followed by  *)
(* formatTime calls on what the previous call returned, or by a second     *)
(* calculateTimeDifference call that passes the estimate as a time object. *)
(***************************************************************************)
MaxFields == 4          \* colon-separated fields of a duration string
MaxCalls == 3           \* calls of one chain
MaxWholeSeconds == 2    \* every hundredth of a second is an input up to this

\* an argument list: one JavaScript value (with its characters when it is a
\* string), or the pair (actualSeconds, estimatedSeconds) in 1/Scale
NoArg == [value |-> JSUndefined, str |-> <<>>, actual |-> 0, estimated |-> 0]
ValueArg(x) == [value |-> x, str |-> <<>>, actual |-> 0, estimated |-> 0]
StringArg(str) == [value |-> JSString, str |-> str, actual |-> 0, estimated |-> 0]
PairArg(a, e) == [value |-> JSUndefined, str |-> <<>>, actual |-> a, estimated |-> e]

\* what one call returned (or that it threw)
NoOut == [fn |-> "", threw |-> FALSE, number |-> JSUndefined, time |-> NoTime,
          difference |-> NoDifference]

RECURSIVE JoinFields(_, _)
JoinFields(fields, sep) ==
    IF Len(fields) = 1 THEN fields[1]
    ELSE fields[1] \o sep \o JoinFields(Tail(fields), sep)

DurationFields ==
    {<<>>, <<"1">>, <<"3", "0">>, <<"a">>, <<"1", "0", "x">>, <<"-", "1", ".", "5">>}
DurationSeparators == {<<":">>, <<":", ":">>}
DurationPrefixes == {<<>>, <<":">>, <<" ">>}
ExampleDurations ==
    {<<"1", ":", "2", "3", ":", "4", "5">>,
     <<"0", "5", ":", "3", "0">>,
     <<"1", ":", "2", ":", "3", ":", "4">>,
     <<"i", "n", "v", "a", "l", "i", "d">>,
     <<"a", ":", "b", ":", "c">>,
     <<" ", "1", " ", ":", " ", "3", "0", " ">>,
     <<"4", "2">>,
     <<"-", "5">>,
     <<"-", "1", ":", "3", "0">>}
DurationStrings ==
    ExampleDurations \cup
    {prefix \o JoinFields(fields, sep) :
        prefix \in DurationPrefixes,
        sep \in DurationSeparators,
        fields \in UNION {[1..n -> DurationFields] : n \in 1..MaxFields}}

\* numbers in 1/Scale: every hundredth around zero, the unit boundaries, and
\* the durations the documentation and the tests use
NumberInputs ==
    ((0 - MaxWholeSeconds * Scale)..(MaxWholeSeconds * Scale))
      \cup {k * Scale + f : k \in {59, 60, 119, 120, 3599, 3600, 3665, 3750, 10000, 86399},
                            f \in {0, 1, 50, 70, 99}}
      \cup {0 - 100 * Scale, 0 - 10 * Scale, 30 * Scale, 31 * Scale}
\* the values that are not finite numbers: NaN, undefined, null, 'not a number'
NonNumbers == {JSNaN, JSUndefined, JSNull, JSString}
ValueInputs == {JSNumber(v) : v \in NumberInputs} \cup NonNumbers

ActualSeconds == {0, 100 * Scale, 120 * Scale, 150 * Scale, 5000 * Scale}
EstimatedSeconds ==
    {0, 99 * Scale + 50, 100 * Scale, 120 * Scale, 400 * Scale, 5000 * Scale, 9000 * Scale}

PureFns == {"parseDurationToSeconds", "formatTime", "calculateEstimatedProcessingTime",
            "calculateTimeDifference"}
PureArgs(fn) ==
    CASE fn = "parseDurationToSeconds" ->
           {StringArg(str) : str \in DurationStrings}
             \cup {ValueArg(x) : x \in {JSNull, JSUndefined, JSNumber(123 * Scale)}}
      [] fn = "formatTime" -> {ValueArg(x) : x \in ValueInputs}
      [] fn = "calculateEstimatedProcessingTime" -> {ValueArg(x) : x \in ValueInputs}
      [] fn = "calculateTimeDifference" ->
           {PairArg(a, e) : a \in ActualSeconds, e \in EstimatedSeconds}

\* !x for the argument values above
falsy(arg) ==
    CASE arg.value.t = "string" -> arg.str = <<>>
      [] arg.value.t = "number" -> arg.value.nan \/ arg.value.v = 0
      [] OTHER -> TRUE

\* variant of invalidDurationString: the type is not looked at
invalidDurationStringFalsy(arg) == falsy(arg)

\* !durationStr || typeof durationStr !== 'string'
invalidDurationString(arg) == falsy(arg) \/ typeof(arg.value) # "string"

\* a call of parseDurationToSeconds(durationStr); durationStr.trim() throws a
\* TypeError when durationStr is not a string
callParseDurationToSeconds ==
    /\ pFn = "parseDurationToSeconds"
    /\ pOut = <<>>
    /\ IF invalidDurationString(pArg)
       THEN /\ logs' = Append(logs, LogEntry("error", "Invalid duration string", <<>>))
            /\ pOut' = <<[NoOut EXCEPT !.fn = pFn, !.number = JSNumber(0)]>>
       ELSE /\ UNCHANGED logs
            /\ pOut' = IF typeof(pArg.value) # "string"
                       THEN <<[NoOut EXCEPT !.fn = pFn, !.threw = TRUE]>>
                       ELSE <<[NoOut EXCEPT !.fn = pFn,
                                  !.number = JSNumber(parseDurationToSeconds(pArg.str))]>>
    /\ UNCHANGED <<op, spawnLog, deleteCalls, pFn, pArg, paVars, tVars, vVars, aVars, rVars, hVars, yVars>>

\* a call of formatTime(seconds) on the argument
callFormatTime ==
    /\ pFn = "formatTime"
    /\ pOut = <<>>
    /\ pOut' = <<[NoOut EXCEPT !.fn = "formatTime", !.time = formatTime(pArg.value)]>>
    /\ UNCHANGED <<op, spawnLog, deleteCalls, logs, pFn, pArg, paVars, tVars, vVars, aVars,
                   rVars, hVars, yVars>>

\* a call of formatTime on the number the previous call returned, or on the
\* totalSeconds of the time object it returned
callFormatTimeOnResult ==
    /\ pOut # <<>>
    /\ Len(pOut) < MaxCalls
    /\ LET last == pOut[Len(pOut)]
       IN  /\ ~last.threw
           /\ last.fn # "calculateTimeDifference"
           /\ pOut' = Append(pOut,
                  [NoOut EXCEPT
                     !.fn = "formatTime",
                     !.time = IF last.fn = "parseDurationToSeconds"
                              THEN formatTime(last.number)
                              ELSE formatTime(JSNumber(last.time.totalSeconds * Scale))])
    /\ UNCHANGED <<op, spawnLog, deleteCalls, logs, pFn, pArg, paVars, tVars, vVars, aVars,
                   rVars, hVars, yVars>>

\* a call of calculateEstimatedProcessingTime(durationSeconds)
callCalculateEstimatedProcessingTime ==
    /\ pFn = "calculateEstimatedProcessingTime"
    /\ pOut = <<>>
    /\ pOut' = <<[NoOut EXCEPT !.fn = pFn,
                     !.time = calculateEstimatedProcessingTime(pArg.value)]>>
    /\ logs' = logs
          \o (IF pArg.value.t # "number" \/ pArg.value.nan \/ pArg.value.v <= 0
              THEN <<LogEntry("warn", "Invalid duration detected", <<>>)>> ELSE <<>>)
          \o <<LogEntry("info", "Actual audio duration detected", <<>>)>>
    /\ UNCHANGED <<op, spawnLog, deleteCalls, pFn, pArg, paVars, tVars, vVars, aVars, rVars, hVars, yVars>>

\* a call of calculateTimeDifference(actualSeconds, estimatedSeconds): the
\* first call of a chain passes the estimate as a number, the second passes
\* the time object formatTime makes of that number
callCalculateTimeDifference ==
    /\ pFn = "calculateTimeDifference"
    /\ Len(pOut) < 2
    /\ LET estimated == IF pOut = <<>> THEN EstimateNumber(pArg.estimated)
                        ELSE EstimateObject(formatTime(JSNumber(pArg.estimated)))
           result == calculateTimeDifference(pArg.actual, estimated)
       IN  /\ pOut' = Append(pOut, [NoOut EXCEPT !.fn = pFn, !.difference = result])
           /\ logs' = Append(logs,
                  LogEntry(IF result.isFaster THEN "info" ELSE "warn",
                           "Difference: Processing was " \o result.differenceText, <<>>))
    /\ UNCHANGED <<op, spawnLog, deleteCalls, pFn, pArg, paVars, tVars, vVars, aVars, rVars, hVars, yVars>>

Ops == {"processAudio", "transcribeAudio", "getVideoDuration", "getAudioDuration",
        "uploadRoute", "errorHandler", "youtubeRoute"}

\* nothing has been called yet
Idle ==
    /\ spawnLog = <<>>
    /\ deleteCalls = <<>>
    /\ logs = <<>>
    /\ paPc = [p \in AudioPaths |-> "idle"]
    /\ cleanupDone = [p \in AudioPaths |-> FALSE]
    /\ ffmpegError = [p \in AudioPaths |-> ""]
    /\ paFired = [p \in AudioPaths |-> <<>>]
    /\ paEnv = [p \in AudioPaths |-> NoEnv]
    /\ paPromise = [p \in AudioPaths |-> NoPromise]
    /\ tPc = "idle"
    /\ wavFile = Null
    /\ tLanguage = ""
    /\ tChunks = <<>>
    /\ transcription = <<>>
    /\ pyStderr = <<>>
    /\ tCode = 0
    /\ unlinkCalls = <<>>
    /\ writeCalls = <<>>
    /\ tPromise = NoTPromise
    /\ vPc = "idle"
    /\ durationData = <<>>
    /\ errorOutput = ""
    /\ fallbackData = <<>>
    /\ vPromise = NoDPromise
    /\ vExit = <<>>
    /\ aPc = "idle"
    /\ aFilePath = Null
    /\ output = <<>>
    /\ aPromise = NoDPromise
    /\ aProbe = [called |-> FALSE, err |-> FALSE, metadata |-> NoMetadata]
    /\ aExit = <<>>
    /\ rPc = "idle"
    /\ req = NoRequest
    /\ rWavFile = Null
    /\ response = NoResponse
    /\ hErr = NoHandled
    /\ clock = 0
    /\ tempFilename = [r \in Requests |-> Null]
    /\ dlPc = "idle"
    /\ dlPromise = NoPromise
    /\ ytEnv = NoYtEnv

Init ==
    /\ op \in Ops
    /\ Idle
    /\ pFn = "none"
    /\ pArg = NoArg
    /\ pOut = <<>>

Next ==
    \/ \E p \in InputPaths : callProcessAudio(p)
    \/ \E p \in AudioPaths : ffmpegStderrData(p)
    \/ \E p \in AudioPaths : ffmpegOnError(p)
    \/ \E p \in AudioPaths : ffmpegOnClose(p)
    \/ \E wav \in WavFiles, language \in Languages : callTranscribeAudio(wav, language)
    \/ pythonStdoutData
    \/ pythonStderrData
    \/ pythonOnClose
    \/ unlinkSettled
    \/ writeSettled
    \/ pythonOnError
    \/ \E url \in Urls : callGetVideoDuration(url)
    \/ ytDlpStdoutData
    \/ ytDlpStderrData
    \/ ytDlpOnClose
    \/ ytDlpOnError
    \/ ytDlpFallbackStdoutData
    \/ ytDlpFallbackStderrData
    \/ ytDlpFallbackOnClose
    \/ ytDlpFallbackOnError
    \/ \E wav \in WavFiles : callGetAudioDuration(wav)
    \/ ffprobeCallback
    \/ ffmpegProcessStderrData
    \/ ffmpegProcessOnClose
    \/ ffmpegProcessOnError
    \/ \E file \in ReqFiles, language \in ReqLanguages : uploadRoute(file, language)
    \/ afterProcessAudio
    \/ afterGetAudioDuration
    \/ afterTranscribeAudio
    \/ \E err \in HandlerErrors, reqFilePath \in HandlerReqFiles : callErrorHandler(err, reqFilePath)
    \/ \E url \in ReqUrls, language \in YoutubeLanguages, now \in FirstTimestamps : youtubeRoute(url, language, now)
    \/ \E url \in ReqUrls, now \in Timestamps : youtubeRouteAgain(url, now)
    \/ afterGetVideoDuration
    \/ downloadStdoutData
    \/ downloadStderrData
    \/ downloadOnClose
    \/ downloadOnError
    \/ afterDownload
    \/ afterYoutubeProcessAudio
    \/ afterYoutubeTranscribeAudio

Spec == Init /\ [][Next]_vars

PureInit ==
    /\ op = "none"
    /\ Idle
    /\ pFn \in PureFns
    /\ pArg \in PureArgs(pFn)
    /\ pOut = <<>>

PureNext ==
    \/ callParseDurationToSeconds
    \/ callFormatTime
    \/ callFormatTimeOnResult
    \/ callCalculateEstimatedProcessingTime
    \/ callCalculateTimeDifference

PureSpec == PureInit /\ [][PureNext]_vars

(***************************************************************************)
(* Properties                                                              *)
(***************************************************************************)
Count(seq, x) == Cardinality({k \in 1..Len(seq) : seq[k] = x})

\* C1: for every processAudio invocation whose input path exists (a process
\* was spawned), deleteFile has been called on the input path exactly once as
\* soon as the first of 'error' / 'close' has fired, and still exactly once
\* after the second one has fired, in either order.  (Within a route the
\* error handler makes deletion calls of its own; those are not processAudio's.)
C1_CleanupExactlyOnce ==
    \A p \in InputPaths :
        (op = "processAudio" /\ paPc[p] = "running") =>
            Count(deleteCalls, p) = (IF paFired[p] = <<>> THEN 0 ELSE 1)

C1_Witness ==
    /\ paFired[<<"uploads", "a">>] = <<"error", "close">>
    /\ paFired[<<"uploads", "b">>] = <<"close", "error">>
    /\ Count(deleteCalls, <<"uploads", "a">>) = 1
    /\ Count(deleteCalls, <<"uploads", "b">>) = 1

\* C2: once the transcription process has closed with a non-zero exit code,
\* no transcript file is ever written and the promise is never resolved; when
\* the promise is rejected it carries the 'Transcription process failed'
\* error, whatever stdout text was accumulated, and the deletion of the
\* converted audio file has already been attempted and has settled.
TClosed == tPc \in {"unlinking", "writing", "done"}

C2_NonZeroExitRejects ==
    (TClosed /\ tCode # 0) =>
        /\ writeCalls = <<>>
        /\ tPromise.state \in {"pending", "rejected"}
        /\ tPc # "writing"
        /\ tPc = "done" =>
             /\ tPromise.state = "rejected"
             /\ tPromise.error.message = "Transcription process failed."
        /\ tPromise.state = "rejected" =>
             /\ Len(unlinkCalls) = 1
             /\ unlinkCalls[1].path = wavFile
             /\ unlinkCalls[1].outcome # "pending"

C2_Witness ==
    /\ tPc = "done"
    /\ tCode # 0
    /\ trim(transcription) # <<>>
    /\ tPromise.state = "rejected"
    /\ unlinkCalls[1].outcome = "ok"

\* C3: the promises of getAudioDuration and getVideoDuration are never
\* rejected, and whenever one is resolved its value has type number.
C3_DurationNeverRejects ==
    /\ aPromise.state \in {"none", "pending", "resolved"}
    /\ vPromise.state \in {"none", "pending", "resolved"}
    /\ aPromise.state = "resolved" => typeof(aPromise.value) = "number"
    /\ vPromise.state = "resolved" => typeof(vPromise.value) = "number"

C3_Witness ==
    /\ vPc = "done"
    /\ Len(vExit) = 2
    /\ vExit[1] # 0
    /\ vExit[2] # 0
    /\ vPromise.state = "resolved"
    /\ vPromise.value = JSNumber(600 * Scale)

\* C4: once every external process started by getAudioDuration or
\* getVideoDuration has delivered its terminating event ('close', or 'error'
\* because the tool could not be started), the returned promise is resolved.
C4_ResolvedAfterTermination ==
    /\ vPc \in {"done", "crashed"} => vPromise.state = "resolved"
    /\ aPc \in {"done", "crashed"} => aPromise.state = "resolved"

\* C5: in getVideoDuration every failure of the primary invocation (non-zero
\* exit code, empty trimmed stdout, or a parsed value <= 0 on exit code 0)
\* has started the fallback invocation exactly once; the promise is never
\* resolved with 0 or a negative value; at most two processes are spawned.
FallbackSpawns ==
    Cardinality({k \in 1..Len(spawnLog) :
                   spawnLog[k].tool = "yt-dlp" /\ spawnLog[k].args[1] = "--get-duration"})

PrimaryFailed ==
    /\ Len(vExit) >= 1
    /\ \/ vExit[1] # 0
       \/ trim(durationData) = <<>>
       \/ parseDurationToSeconds(trim(durationData)) <= 0

C5_PrimaryFailureFallsBackOnce ==
    op = "getVideoDuration" =>
        /\ Len(spawnLog) <= 2
        /\ PrimaryFailed => FallbackSpawns = 1
        /\ vPromise.state = "resolved" =>
             /\ ~vPromise.value.nan
             /\ vPromise.value.v > 0

C5_Witness ==
    /\ vPc = "done"
    /\ vExit[1] = 0
    /\ trim(durationData) # <<>>
    /\ parseDurationToSeconds(trim(durationData)) <= 0
    /\ FallbackSpawns = 1
    /\ vPromise.state = "resolved"
    /\ vPromise.value = JSNumber(345 * Scale)

\* C6: when the primary invocation failed and the fallback invocation closed
\* with a non-zero exit code, with empty output, or with output that parses
\* to a value <= 0, getVideoDuration has resolved with exactly 600.
FallbackFailed ==
    /\ Len(vExit) = 2
    /\ \/ vExit[2] # 0
       \/ trim(fallbackData) = <<>>
       \/ parseDurationToSeconds(trim(fallbackData)) <= 0

C6_BothFailResolves600 ==
    FallbackFailed =>
        /\ vPromise.state = "resolved"
        /\ vPromise.value = JSNumber(600 * Scale)

C6_Witness ==
    /\ Len(vExit) = 2
    /\ vExit[2] = 0
    /\ trim(fallbackData) # <<>>
    /\ parseDurationToSeconds(trim(fallbackData)) < 0
    /\ vPromise.state = "resolved"
    /\ vPromise.value = JSNumber(600 * Scale)

\* C7: when the primary invocation closed with exit code 0 and non-empty
\* stdout that parses to a value > 0, getVideoDuration has resolved with the
\* parsed value and no fallback process was started, whatever the primary
\* process wrote to stderr.
PrimaryUsable ==
    /\ Len(vExit) >= 1
    /\ vExit[1] = 0
    /\ trim(durationData) # <<>>
    /\ parseDurationToSeconds(trim(durationData)) > 0

C7_PrimarySuccessNoFallback ==
    PrimaryUsable =>
        /\ vPc = "done"
        /\ Len(vExit) = 1
        /\ op = "getVideoDuration" => Len(spawnLog) = 1
        /\ FallbackSpawns = 0
        /\ vPromise.state = "resolved"
        /\ vPromise.value = JSNumber(parseDurationToSeconds(trim(durationData)))

C7_Witness ==
    /\ PrimaryUsable
    /\ errorOutput # ""
    /\ vPromise.value = JSNumber(630 * Scale)
    /\ Len(spawnLog) = 1

\* C8: when the metadata probe of getAudioDuration failed, exactly one
\* `ffmpeg -i` process has been spawned; once it has closed, whatever its exit
\* code, the promise is resolved with H*3600 + MM*60 + SS.fraction of the
\* first 'Duration: H:MM:SS.fraction' in the accumulated stream, and with 300
\* when the stream holds no such text.
AllDigits(str, i, j) == i <= j /\ j <= Len(str) /\ \A k \in i..j : str[k] \in Digits
CharIs(str, i, c) == i <= Len(str) /\ str[i] = c

\* 'Duration: H:MM:SS.fraction' stands at index i of str; with value given, the
\* fields are the maximal ones and value is their duration in 1/Scale seconds
PatternAt(str, i, checkValue, value) ==
    /\ i + Len(DurationPrefix) - 1 <= Len(str)
    /\ \A k \in 1..Len(DurationPrefix) : str[i + k - 1] = DurationPrefix[k]
    /\ \E e1 \in (i + Len(DurationPrefix))..Len(str) :
         /\ AllDigits(str, i + Len(DurationPrefix), e1)
         /\ CharIs(str, e1 + 1, ":")
         /\ \E e2 \in (e1 + 2)..Len(str) :
              /\ AllDigits(str, e1 + 2, e2)
              /\ CharIs(str, e2 + 1, ":")
              /\ \E e3 \in (e2 + 2)..Len(str) :
                   /\ AllDigits(str, e2 + 2, e3)
                   /\ CharIs(str, e3 + 1, ".")
                   /\ \E e4 \in (e3 + 2)..Len(str) :
                        /\ AllDigits(str, e3 + 2, e4)
                        /\ checkValue =>
                             /\ ~AllDigits(str, e3 + 2, e4 + 1)
                             /\ value =
                                  DigitsValue(str, i + Len(DurationPrefix), e1) * 3600 * Scale
                                  + DigitsValue(str, e1 + 2, e2) * 60 * Scale
                                  + DigitsValue(str, e2 + 2, e3) * Scale
                                  + FractionValue(str, e3 + 2, e4)

\* the `ffmpeg -i <file>` processes spawned for the probed file
ProbeFallbackSpawns ==
    Cardinality({k \in 1..Len(spawnLog) :
                   spawnLog[k] = [tool |-> "ffmpeg", args |-> <<"-i", aFilePath>>]})

C8_ProbeFailureFallback ==
    (aProbe.called /\ aProbe.err) =>
        /\ ProbeFallbackSpawns = 1
        /\ op = "getAudioDuration" => Len(spawnLog) = 1
        /\ aPc = "done" =>
             /\ Len(aExit) = 1
             /\ aPromise.state = "resolved"
             /\ ~aPromise.value.nan
             /\ IF \E i \in 1..Len(output) : PatternAt(output, i, FALSE, 0)
                THEN \E i \in 1..Len(output) :
                       /\ PatternAt(output, i, TRUE, aPromise.value.v)
                       /\ \A h \in 1..(i - 1) : ~PatternAt(output, h, FALSE, 0)
                ELSE aPromise.value = JSNumber(300 * Scale)

C8_Witness ==
    /\ aProbe.called
    /\ aProbe.err
    /\ aPc = "done"
    /\ aExit[1] # 0
    /\ aPromise.value = JSNumber(3723 * Scale + Scale \div 2)

\* C9: when the metadata probe of getAudioDuration succeeded, no process is
\* ever spawned and the promise is resolved at once: with format.duration
\* itself (not floored) when it is a number, and with 300 when the metadata,
\* its format or a numeric duration is missing.
C9_ProbeSuccessNoFallback ==
    (aProbe.called /\ ~aProbe.err) =>
        /\ ProbeFallbackSpawns = 0
        /\ op = "getAudioDuration" => spawnLog = <<>>
        /\ aPc = "done"
        /\ aExit = <<>>
        /\ aPromise.state = "resolved"
        /\ aPromise.value =
             (IF /\ aProbe.metadata.present
                 /\ aProbe.metadata.hasFormat
                 /\ aProbe.metadata.duration.t = "number"
              THEN aProbe.metadata.duration
              ELSE JSNumber(300 * Scale))

C9_Witness ==
    /\ aProbe.called
    /\ ~aProbe.err
    /\ aProbe.metadata.duration = JSNumber(12 * Scale + Scale \div 2)
    /\ aPromise.value = JSNumber(12 * Scale + Scale \div 2)
    /\ spawnLog = <<>>

\* C10: the outcome of transcribeAudio is the same whether or not deleting the
\* converted audio file succeeded: with a non-zero exit code the promise is
\* rejected with the transcription-failure error, with exit code 0 and a
\* successful write it is resolved with {text, transcriptFile}; a failed
\* delete has been logged.
C10_OutcomeIndependentOfDelete ==
    tPc = "done" =>
        /\ tCode # 0 =>
             /\ tPromise.state = "rejected"
             /\ tPromise.error = PlainError("Transcription process failed.")
        /\ (tCode = 0 /\ writeCalls # <<>> /\ writeCalls[1].outcome = "ok") =>
             /\ tPromise.state = "resolved"
             /\ tPromise.value = [text |-> trim(transcription),
                                  transcriptFile |-> writeCalls[1].file]
        /\ unlinkCalls[1].outcome = "failed" =>
             \E k \in 1..Len(logs) :
                 /\ logs[k].level \in {"warn", "error"}
                 /\ logs[k].msg \in {"Failed to delete WAV file: " \o e : e \in UnlinkErrors}

C10_Witness ==
    /\ tPc = "done"
    /\ unlinkCalls[1].outcome = "failed"
    /\ tCode = 0
    /\ tPromise.state = "resolved"
    /\ tPromise.value.text = <<"h", "i">>

\* C11: when the transcription process exited with code 0 and writing the
\* transcript file failed, transcribeAudio is rejected with the error the
\* write raised and is never resolved; the deletion of the converted audio
\* file was attempted, and had settled, before the write was started.
C11_WriteFailureRejects ==
    (tCode = 0 /\ writeCalls # <<>>) =>
        /\ Len(unlinkCalls) = 1
        /\ unlinkCalls[1].path = wavFile
        /\ unlinkCalls[1].outcome # "pending"
        /\ writeCalls[1].outcome = "pending" => tPromise.state = "pending"
        /\ writeCalls[1].outcome = "failed" =>
             /\ tPc = "done"
             /\ tPromise.state = "rejected"
             /\ tPromise.error.message = writeCalls[1].error
             /\ tPromise.value = NoTranscript

C11_Witness ==
    /\ tPc = "done"
    /\ tCode = 0
    /\ trim(transcription) = <<"h", "i">>
    /\ writeCalls[1].outcome = "failed"
    /\ tPromise.state = "rejected"
    /\ tPromise.error.message = "Write failed"

\* C12: when the transcription process exited with code 0 and the write
\* succeeded, transcribeAudio is resolved with text equal to the concatenation,
\* in arrival order, of all stdout chunks received before 'close', with the
\* white space at both ends removed, and with transcriptFile equal to
\* <output dir>/<basename(artifact)>.txt; exactly one file was written, that
\* file, and its content is the returned text.
RECURSIVE Flatten(_)
Flatten(chunks) == IF chunks = <<>> THEN <<>> ELSE Head(chunks) \o Flatten(Tail(chunks))

WhiteSpace == {" ", "\n", "\t", "\r"}

\* text is str without its leading and trailing white space
IsTrimOf(text, str) ==
    \E i \in 1..(Len(str) + 1) :
        /\ \A k \in 1..(i - 1) : str[k] \in WhiteSpace
        /\ \A k \in (i + Len(text))..Len(str) : str[k] \in WhiteSpace
        /\ i + Len(text) - 1 <= Len(str)
        /\ \A k \in 1..Len(text) : text[k] = str[i + k - 1]
        /\ text # <<>> => (text[1] \notin WhiteSpace /\ text[Len(text)] \notin WhiteSpace)

C12_ResolvesWithTrimmedText ==
    /\ Len(writeCalls) <= 1
    /\ (tCode = 0 /\ writeCalls # <<>> /\ writeCalls[1].outcome = "ok") =>
          /\ tPc = "done"
          /\ tPromise.state = "resolved"
          /\ IsTrimOf(tPromise.value.text, Flatten(tChunks))
          /\ tPromise.value.transcriptFile =
               <<"transcriptions", wavFile[Len(wavFile)] \o ".txt">>
          /\ writeCalls[1].file = tPromise.value.transcriptFile
          /\ writeCalls[1].data = tPromise.value.text

C12_Witness ==
    /\ tPc = "done"
    /\ tCode = 0
    /\ tChunks = << <<" ">>, <<"h", "i">>, <<"\n">> >>
    /\ writeCalls[1].outcome = "ok"
    /\ tPromise.state = "resolved"
    /\ tPromise.value = [text |-> <<"h", "i">>,
                         transcriptFile |-> <<"transcriptions", "a.wav.txt">>]

\* C13: the third argument of the transcription process is the model path
\* configured for the language code transcribeAudio was called with, and the
\* English model path for every language code without a configured model.
C13_ModelPathForLanguage ==
    tPc # "idle" =>
        \E k \in 1..Len(spawnLog) :
            /\ spawnLog[k].tool = "./venv/bin/python3"
            /\ spawnLog[k].args[3] =
                 (IF tLanguage = "es" THEN "models/vosk-model-es-0.42"
                  ELSE "models/vosk-model-en-us-0.22")

\* C14: when the input path does not exist, processAudio is rejected in the
\* call itself with the file-not-found error (status 500); it has spawned no
\* process for that path and has made no deletion call.
SpawnsFor(p) ==
    Cardinality({k \in 1..Len(spawnLog) :
                   spawnLog[k].tool = "ffmpeg" /\ Len(spawnLog[k].args) > 2
                     /\ spawnLog[k].args[2] = p})

C14_MissingInputRejects ==
    \A p \in InputPaths :
        paEnv[p].exists = "no" =>
            /\ paPromise[p].state = "rejected"
            /\ paPromise[p].error.message = "Input file does not exist"
            /\ paPromise[p].error.statusCode = 500
            /\ SpawnsFor(p) = 0
            /\ paFired[p] = <<>>
            /\ ~cleanupDone[p]
            /\ op = "processAudio" => Count(deleteCalls, p) = 0

C14_Witness ==
    /\ op = "processAudio"
    /\ paEnv[<<"uploads", "a">>].exists = "no"
    /\ paPromise[<<"uploads", "a">>].state = "rejected"
    /\ paFired[<<"uploads", "b">>] = <<"close">>
    /\ Len(spawnLog) = 1
    /\ deleteCalls = << <<"uploads", "b">> >>

\* C15: when the first terminating event of the transcode process is a
\* spawn-level 'error', processAudio is rejected with status 500 and the
\* message '<conversion failed>: <native error message>', and at every moment
\* the rejection can be observed deleteFile has been called on the input file.
C15_SpawnErrorRejects ==
    \A p \in InputPaths :
        (paFired[p] # <<>> /\ paFired[p][1] = "error") =>
            /\ paPromise[p].state = "rejected"
            /\ paPromise[p].error.statusCode = 500
            /\ paPromise[p].error.message =
                 "FFmpeg conversion failed: " \o paEnv[p].errMessage
            /\ Count(deleteCalls, p) >= 1
            /\ op = "processAudio" => Count(deleteCalls, p) = 1

C15_Witness ==
    /\ paFired[<<"uploads", "a">>] = <<"error", "close">>
    /\ paEnv[<<"uploads", "a">>].code = 0
    /\ paEnv[<<"uploads", "a">>].wavExists
    /\ paPromise[<<"uploads", "a">>].error.message =
         "FFmpeg conversion failed: spawn ffmpeg ENOENT"
    /\ deleteCalls = << <<"uploads", "a">> >>

\* C16: when the transcode process closed with a non-zero exit code N and no
\* 'error' event fired before, processAudio is rejected with status 500 and
\* the message '<conversion failed> with code N', followed by ': ' and the
\* accumulated stderr exactly when that is non-empty; it is not resolved, not
\* even when the output file exists.
C16_NonZeroExitRejects ==
    \A p \in InputPaths :
        (paFired[p] # <<>> /\ paFired[p][1] = "close" /\ paEnv[p].code # 0) =>
            /\ paPromise[p].state = "rejected"
            /\ paPromise[p].error.statusCode = 500
            /\ paPromise[p].error.message =
                 (IF ffmpegError[p] = ""
                  THEN "FFmpeg conversion failed with code " \o ToString(paEnv[p].code)
                  ELSE "FFmpeg conversion failed with code " \o ToString(paEnv[p].code)
                         \o ": " \o ffmpegError[p])

C16_Witness ==
    /\ paFired[<<"uploads", "a">>] = <<"close">>
    /\ paEnv[<<"uploads", "a">>].code = 2
    /\ paEnv[<<"uploads", "a">>].wavExists
    /\ paPromise[<<"uploads", "a">>].error.message =
         "FFmpeg conversion failed with code 2: warn;warn;"
    /\ paFired[<<"uploads", "b">>] = <<"close">>
    /\ paPromise[<<"uploads", "b">>].error.message =
         "FFmpeg conversion failed with code 1"

\* C17: when the transcode process closed with exit code 0 (no 'error' event
\* before) and the output file '<input>.<format>' does not exist, processAudio
\* is rejected with the output-not-created error (status 500) and is not
\* resolved with the output path.
C17_MissingOutputRejects ==
    \A p \in InputPaths :
        (/\ paFired[p] # <<>>
         /\ paFired[p][1] = "close"
         /\ paEnv[p].code = 0
         /\ ~paEnv[p].wavExists) =>
            /\ paPromise[p].state = "rejected"
            /\ paPromise[p].path = ""
            /\ paPromise[p].error.statusCode = 500
            /\ paPromise[p].error.message = "WAV file was not created during conversion"

C17_Witness ==
    /\ paFired[<<"uploads", "a">>] = <<"close">>
    /\ paEnv[<<"uploads", "a">>].code = 0
    /\ ~paEnv[<<"uploads", "a">>].wavExists
    /\ paPromise[<<"uploads", "a">>].state = "rejected"

\* C18: when the transcode process closed with exit code 0 (no 'error' event
\* before) and the output file exists, processAudio is resolved with
\* '<input>.<format>', whatever the process wrote to stderr.
C18_CleanExitResolves ==
    \A p \in InputPaths :
        (/\ paFired[p] # <<>>
         /\ paFired[p][1] = "close"
         /\ paEnv[p].code = 0
         /\ paEnv[p].wavExists) =>
            /\ paPromise[p].state = "resolved"
            /\ paPromise[p].path = [p EXCEPT ![Len(p)] = @ \o ".wav"]
            /\ paPromise[p].error = NoError

C18_Witness ==
    /\ paFired[<<"uploads", "a">>] = <<"close">>
    /\ ffmpegError[<<"uploads", "a">>] = "warn;warn;"
    /\ paPromise[<<"uploads", "a">>].state = "resolved"
    /\ paPromise[<<"uploads", "a">>].path = <<"uploads", "a.wav">>

\* C19: one run of the upload route goes pending -> converting -> converted ->
\* transcribing -> transcribed: duration detection and transcription have
\* started only if conversion succeeded, and transcription only after the
\* duration was detected; a failed conversion ends the run (neither later
\* stage is ever started), a failed transcription ends the run; the transcode
\* process and the transcription process are each spawned at most once.
TranscodeSpawnAt(k) == spawnLog[k].tool = "ffmpeg" /\ Len(spawnLog[k].args) > 2
TranscriptionSpawnAt(k) == spawnLog[k].tool = "./venv/bin/python3"

C19_UploadStagesInOrder ==
    op = "uploadRoute" =>
        /\ Cardinality({k \in 1..Len(spawnLog) : TranscodeSpawnAt(k)}) <= 1
        /\ Cardinality({k \in 1..Len(spawnLog) : TranscriptionSpawnAt(k)}) <= 1
        /\ \A k \in 1..Len(spawnLog) : k > 1 => ~TranscodeSpawnAt(k)
        /\ \A k \in 1..Len(spawnLog) : k < Len(spawnLog) => ~TranscriptionSpawnAt(k)
        /\ rPc = "idle" => (spawnLog = <<>> /\ aPc = "idle" /\ tPc = "idle")
        /\ (aPc # "idle" \/ tPc # "idle") =>
             /\ paPromise[req.file].state = "resolved"
             /\ aFilePath = paPromise[req.file].path
        /\ tPc # "idle" =>
             /\ aPromise.state = "resolved"
             /\ wavFile = paPromise[req.file].path
        /\ (rPc # "idle" /\ paPromise[req.file].state = "rejected") =>
             /\ aPc = "idle"
             /\ tPc = "idle"
             /\ rPc \in {"awaitProcessAudio", "failed"}
             /\ ~response.success
        /\ tPromise.state = "rejected" =>
             /\ rPc \in {"awaitTranscribeAudio", "failed"}
             /\ ~response.success
        /\ rPc = "failed" =>
             /\ response.sent
             /\ ~response.success
             /\ paPromise[req.file].state = "rejected" \/ tPromise.state = "rejected"
        /\ rPc = "responded" =>
             /\ response.sent
             /\ response.success
             /\ tPromise.state = "resolved"

C19_Witness ==
    /\ rPc = "responded"
    /\ Len(spawnLog) = 3
    /\ TranscodeSpawnAt(1)
    /\ spawnLog[2] = [tool |-> "ffmpeg", args |-> <<"-i", <<"uploads", "a.wav">> >>]
    /\ TranscriptionSpawnAt(3)
    /\ response.success
    /\ response.transcription.text = <<"h", "i">>

\* C20: when a run of the upload route is complete (the response was sent by
\* the handler or by the error handler), the deletion of the raw input file
\* has been attempted exactly once and the deletion of the converted audio
\* file has been attempted exactly once.
DeletionAttempts(path) ==
    Count(deleteCalls, path)
      + Cardinality({k \in 1..Len(unlinkCalls) : unlinkCalls[k].path = path})

C20_EachArtifactDeletedOnce ==
    (op = "uploadRoute" /\ rPc \in {"responded", "failed"}) =>
        /\ DeletionAttempts(req.file) = 1
        /\ DeletionAttempts([req.file EXCEPT ![Len(req.file)] = @ \o ".wav"]) = 1

\* C21: two processAudio invocations on different input paths do not
\* interfere, whatever the interleaving of their events: every step touches
\* the guard, the diagnostic buffer, the fired events and the promise of one
\* invocation only; a deleteFile call a step makes is of that invocation's own
\* input and is made when the first of its own 'error' / 'close' fires; and
\* its promise settles only on its own events, with the outcome its own exit
\* code, output check and diagnostic buffer dictate.
paState(p) == <<paPc[p], cleanupDone[p], ffmpegError[p], paFired[p], paEnv[p], paPromise[p]>>

C21_InvocationsDoNotInterfere ==
    [][op = "processAudio" =>
        \E p \in InputPaths :
            /\ \A q \in InputPaths \ {p} : paState(q)' = paState(q)
            /\ \/ deleteCalls' = deleteCalls
               \/ /\ deleteCalls' = Append(deleteCalls, p)
                  /\ paFired[p] = <<>>
                  /\ paFired'[p] # <<>>
            /\ (paPc[p] = "running" /\ paPromise'[p] # paPromise[p]) =>
                  /\ paPromise[p].state = "pending"
                  /\ Len(paFired'[p]) = Len(paFired[p]) + 1
                  /\ LET e == paFired'[p][Len(paFired'[p])]
                         code == paEnv'[p].code
                     IN  IF e = "error"
                         THEN /\ paPromise'[p].state = "rejected"
                              /\ paPromise'[p].error.cleanup = p
                         ELSE IF code # 0
                         THEN /\ paPromise'[p].state = "rejected"
                              /\ paPromise'[p].error.message =
                                    errorMessages.ffmpegFailed \o " with code "
                                      \o ToString(code)
                                      \o (IF ffmpegError[p] = "" THEN ""
                                          ELSE ": " \o ffmpegError[p])
                         ELSE IF paEnv'[p].wavExists
                         THEN /\ paPromise'[p].state = "resolved"
                              /\ paPromise'[p].path =
                                    [p EXCEPT ![Len(p)] = @ \o "." \o audioFormat]
                         ELSE /\ paPromise'[p].state = "rejected"
                              /\ paPromise'[p].error.message = errorMessages.wavNotCreated
    ]_vars

\* the two invocations started in one order and finished in the other, one by
\* 'error' and one by a failing 'close', with different diagnostic buffers
C21_Witness ==
    /\ op = "processAudio"
    /\ Len(spawnLog) = 2
    /\ spawnLog[1].args[2] = <<"uploads", "a">>
    /\ deleteCalls = << <<"uploads", "b">>, <<"uploads", "a">> >>
    /\ paFired[<<"uploads", "a">>] = <<"error">>
    /\ paFired[<<"uploads", "b">>] = <<"close">>
    /\ ffmpegError[<<"uploads", "a">>] = "warn;"
    /\ ffmpegError[<<"uploads", "b">>] = ""
    /\ paPromise[<<"uploads", "a">>].state = "rejected"
    /\ paPromise[<<"uploads", "b">>].state = "rejected"
    /\ paPromise[<<"uploads", "b">>].error.message =
          errorMessages.ffmpegFailed \o " with code 1"

(***************************************************************************)
(* Properties of the time utilities (checked under PureSpec)               *)
(***************************************************************************)
Parsed == pFn = "parseDurationToSeconds" /\ pOut # <<>>

\* the reference reading of a duration string: the fields are the stretches
\* between runs of colons (an empty one before a leading or after a trailing
\* run), each worth the number it starts with or 0
ColonRunStarts(str) == {k \in 1..Len(str) : str[k] = ":" /\ (k = 1 \/ str[k - 1] # ":")}
RefFieldCount(str) == Cardinality(ColonRunStarts(str)) + 1
RefField(str, i) ==
    LET at == {k \in 1..Len(str) :
                 /\ str[k] # ":"
                 /\ Cardinality({r \in ColonRunStarts(str) : r < k}) = i - 1}
    IN  IF at = {} THEN <<>> ELSE SubSeq(str, SeqMin(at), SeqMax(at))
RefValue(field) == LET num == parseFloat(field) IN IF num.nan THEN 0 ELSE num.v
RefSeconds(str0) ==
    LET str == trim(str0)
        n == RefFieldCount(str)
    IN  IF n = 3 THEN RefValue(RefField(str, 1)) * 3600 + RefValue(RefField(str, 2)) * 60
                        + RefValue(RefField(str, 3))
        ELSE IF n = 2 THEN RefValue(RefField(str, 1)) * 60 + RefValue(RefField(str, 2))
        ELSE RefValue(str)

\* C22: for every string that has one, two or three colon-delimited fields
\* once runs of colons count as one colon, parseDurationToSeconds returns
\* what the reference reading gives: hours*3600 + minutes*60 + seconds for
\* three fields, minutes*60 + seconds for two, the numeric value (or 0) when
\* there is no colon; so '1:23:45' is 5025, '05:30' is 330, ':30' is 30 and
\* '1::30' is 90.
C22_ParseMatchesReference ==
    (Parsed /\ pArg.value.t = "string") =>
        /\ RefFieldCount(trim(pArg.str)) \in 1..3 =>
             pOut[1].number = JSNumber(RefSeconds(pArg.str))
        /\ pArg.str = <<"1", ":", "2", "3", ":", "4", "5">> =>
             pOut[1].number = JSNumber(5025 * Scale)
        /\ pArg.str = <<"0", "5", ":", "3", "0">> => pOut[1].number = JSNumber(330 * Scale)
        /\ pArg.str = <<":", "3", "0">> => pOut[1].number = JSNumber(30 * Scale)
        /\ pArg.str = <<"1", ":", ":", "3", "0">> => pOut[1].number = JSNumber(90 * Scale)

C22_Witness ==
    /\ Parsed
    /\ pArg.str = <<"1", ":", ":", "3", "0">>
    /\ pOut[1].number = JSNumber(90 * Scale)

\* C23 as stated: parseDurationToSeconds returns 0 for every string whose
\* shape is none of one, two or three colon-delimited fields, e.g. '1:2:3:4'.
C23_OtherShapesReturnZero ==
    (Parsed /\ pArg.value.t = "string" /\ RefFieldCount(trim(pArg.str)) \notin 1..3) =>
        pOut[1].number = JSNumber(0)

\* C23 amended: for a string of four or more colon-delimited fields
\* parseDurationToSeconds returns the number the trimmed string starts with
\* (its first field), and 0 only when it starts with none; '1:2:3:4' is 1.
C23_OtherShapesReturnLeadingNumber ==
    (Parsed /\ pArg.value.t = "string" /\ RefFieldCount(trim(pArg.str)) \notin 1..3) =>
        /\ pOut[1].number = JSNumber(RefValue(RefField(trim(pArg.str), 1)))
        /\ pArg.str = <<"1", ":", "2", ":", "3", ":", "4">> =>
             pOut[1].number = JSNumber(1 * Scale)

C23_Witness ==
    /\ Parsed
    /\ pArg.str = <<"1", ":", "2", ":", "3", ":", "4">>
    /\ pOut[1].number = JSNumber(1 * Scale)

\* C24: parseDurationToSeconds never throws and always returns a number (not
\* NaN); it returns 0 for every argument that is not a string (null,
\* undefined, a number), for the empty string and for every string without a
\* digit in it ('invalid', 'a:b:c', ':', '::').
C24_ParseIsTotal ==
    Parsed =>
        /\ ~pOut[1].threw
        /\ pOut[1].number.t = "number"
        /\ ~pOut[1].number.nan
        /\ (\/ pArg.value.t # "string"
            \/ \A k \in 1..Len(pArg.str) : pArg.str[k] \notin Digits)
             => pOut[1].number = JSNumber(0)

\* a number was passed and 0 came back
C24_Witness ==
    /\ Parsed
    /\ pArg.value = JSNumber(123 * Scale)
    /\ ~pOut[1].threw
    /\ pOut[1].number = JSNumber(0)

\* C25: formatTime returns the all-zero breakdown for every argument that is
\* not a number (undefined, null, a string that names no number), is NaN, is
\* zero or is negative.
C25_FormatTimeInvalidIsZero ==
    (pFn = "formatTime" /\ pOut # <<>>
       /\ (pArg.value.t # "number" \/ pArg.value.nan \/ pArg.value.v <= 0)) =>
        pOut[1].time = [hours |-> 0, minutes |-> 0, seconds |-> 0, totalSeconds |-> 0]

C25_Witness ==
    /\ pFn = "formatTime"
    /\ pArg.value = JSNumber(0 - 100 * Scale)
    /\ pOut # <<>>
    /\ pOut[1].time.totalSeconds = 0

\* C26: for every non-negative number s, formatTime(s) has totalSeconds =
\* floor(s), minutes and seconds within 0..59, hours >= 0, and
\* hours*3600 + minutes*60 + seconds = totalSeconds.
C26_FormatTimeBreakdown ==
    (pFn = "formatTime" /\ pOut # <<>>
       /\ pArg.value.t = "number" /\ ~pArg.value.nan /\ pArg.value.v >= 0) =>
        LET time == pOut[1].time
            s == pArg.value.v
        IN  /\ time.totalSeconds * Scale <= s
            /\ s < (time.totalSeconds + 1) * Scale
            /\ time.minutes \in 0..59
            /\ time.seconds \in 0..59
            /\ time.hours >= 0
            /\ time.hours * 3600 + time.minutes * 60 + time.seconds = time.totalSeconds

\* formatTime(3665.7) is 1 h 1 min 5 s
C26_Witness ==
    /\ pFn = "formatTime"
    /\ pArg.value = JSNumber(3665 * Scale + 70)
    /\ pOut # <<>>
    /\ pOut[1].time = [hours |-> 1, minutes |-> 1, seconds |-> 5, totalSeconds |-> 3665]

\* C27: formatting is idempotent on totalSeconds: formatTime applied to the
\* totalSeconds of a time object formatTime returned gives that same object
\* again; in particular the totalSeconds of formatTime(parseDurationToSeconds(x))
\* is unchanged by formatting it again.
C27_FormatTimeIdempotent ==
    \A k \in 2..Len(pOut) :
        (pOut[k].fn = "formatTime"
           /\ pOut[k - 1].fn \in {"formatTime", "calculateEstimatedProcessingTime"}) =>
            pOut[k].time = pOut[k - 1].time

\* '1:-1.5' parsed (58.5 s), formatted, and its totalSeconds formatted again
C27_Witness ==
    /\ pFn = "parseDurationToSeconds"
    /\ pArg.str = <<"1", ":", "-", "1", ".", "5">>
    /\ Len(pOut) = 3
    /\ pOut[1].number = JSNumber(58 * Scale + 50)
    /\ pOut[2].time = [hours |-> 0, minutes |-> 0, seconds |-> 58, totalSeconds |-> 58]
    /\ pOut[3].time = pOut[2].time

\* C28: calculateEstimatedProcessingTime(d).totalSeconds is fixedOverhead +
\* ceil(d' / speedFactor), where d' is d when d is a positive number and 60
\* otherwise; with the defaults (60, 30) that is 64 for 120, 180 for 3600 and
\* 62 for every invalid duration.
C28_EstimateFormula ==
    (pFn = "calculateEstimatedProcessingTime" /\ pOut # <<>>) =>
        LET d == pArg.value
            valid == d.t = "number" /\ ~d.nan /\ d.v > 0
            dd == IF valid THEN d.v ELSE 60 * Scale
            \* the least integer c with c * speedFactor >= d'
            c == CHOOSE n \in 0..(dd \div Scale + 1) :
                     /\ n * 30 * Scale >= dd
                     /\ (n - 1) * 30 * Scale < dd
            total == pOut[1].time.totalSeconds
        IN  /\ total = 60 + c
            /\ d = JSNumber(120 * Scale) => total = 64
            /\ d = JSNumber(3600 * Scale) => total = 180
            /\ ~valid => total = 62

\* a duration that is not a multiple of the speed factor: 3665.7 s gives 60 + 123
C28_Witness ==
    /\ pFn = "calculateEstimatedProcessingTime"
    /\ pArg.value = JSNumber(3665 * Scale + 70)
    /\ pOut # <<>>
    /\ pOut[1].time.totalSeconds = 183

Compared == pFn = "calculateTimeDifference" /\ pOut # <<>>

\* C29: calculateTimeDifference(a, e) returns differenceSeconds = |a - e| and
\* isFaster = (a <= e), a tie counting as faster; passing a time object whose
\* totalSeconds is e gives the same result as passing the number e.
C29_DifferenceAndDirection ==
    Compared =>
        LET a == pArg.actual
            e == pArg.estimated
            whole == e \div Scale
            byNumber == pOut[1].difference
        IN  /\ byNumber.differenceSeconds \in {a - e, e - a}
            /\ byNumber.differenceSeconds >= 0
            /\ byNumber.isFaster <=> a <= e
            /\ Len(pOut) = 2 =>
                 LET byObject == pOut[2].difference
                 IN  /\ byObject.differenceSeconds \in {a - whole * Scale, whole * Scale - a}
                     /\ byObject.differenceSeconds >= 0
                     /\ byObject.isFaster <=> a <= whole * Scale
                     /\ e = whole * Scale => byObject = byNumber

\* a tie, by number and by time object
C29_Witness ==
    /\ Compared
    /\ pArg.actual = 120 * Scale
    /\ pArg.estimated = 120 * Scale
    /\ Len(pOut) = 2
    /\ pOut[1].difference.isFaster
    /\ pOut[2].difference.isFaster
    /\ pOut[2].difference.differenceSeconds = 0

\* C30: differenceText names the difference from its coarsest non-zero unit
\* down: '{h}h {m}m {s}s' when hours > 0, else '{m}m {s}s' when minutes > 0,
\* else '{s}s', followed by 'faster than estimated' exactly when isFaster and
\* by 'slower than estimated' otherwise.
C30_DifferenceText ==
    Compared =>
        \A k \in 1..Len(pOut) :
            LET result == pOut[k].difference
                d == result.differenceSeconds \div Scale
                h == d \div 3600
                m == (d % 3600) \div 60
                s == d % 60
            IN  result.differenceText =
                    (IF h > 0 THEN ToString(h) \o "h " ELSE "")
                      \o (IF h > 0 \/ m > 0 THEN ToString(m) \o "m " ELSE "")
                      \o ToString(s) \o "s "
                      \o (IF result.isFaster THEN "faster than estimated"
                          ELSE "slower than estimated")

\* a difference of more than an hour
C30_Witness ==
    /\ Compared
    /\ pArg.actual = 100 * Scale
    /\ pArg.estimated = 5000 * Scale
    /\ pOut[1].difference.isFaster
    /\ pOut[1].difference.differenceText = "1h 21m 40s faster than estimated"

(***************************************************************************)
(* Settling of processAudio's promise                                      *)
(***************************************************************************)
\* C38: the promise of processAudio is settled once and its outcome is the
\* one of the first terminating event: when 'error' came first the caller
\* sees the spawn-level rejection (cleanup target: the input) even after a
\* later 'close' with code 0 and the output present; when 'close' came first
\* the outcome is the one of that close (rejected with the output as cleanup
\* target for a non-zero code, rejected without target when the output is
\* missing, resolved with the output path otherwise) even after a later
\* 'error'.
C38_FirstEventFixesOutcome ==
    op = "processAudio" =>
        \A p \in InputPaths :
            paFired[p] # <<>> =>
                IF paFired[p][1] = "error"
                THEN /\ paPromise[p].state = "rejected"
                     /\ paPromise[p].error.message =
                          "FFmpeg conversion failed: " \o paEnv[p].errMessage
                     /\ paPromise[p].error.cleanup = p
                ELSE IF paEnv[p].code # 0
                THEN /\ paPromise[p].state = "rejected"
                     /\ paPromise[p].error.cleanup = <<p[1], p[2] \o ".wav">>
                ELSE IF ~paEnv[p].wavExists
                THEN /\ paPromise[p].state = "rejected"
                     /\ paPromise[p].error.message = "WAV file was not created during conversion"
                     /\ paPromise[p].error.cleanup = Null
                ELSE /\ paPromise[p].state = "resolved"
                     /\ paPromise[p].path = <<p[1], p[2] \o ".wav">>

C38_Witness ==
    /\ op = "processAudio"
    /\ paFired[<<"uploads", "a">>] = <<"error", "close">>
    /\ paEnv[<<"uploads", "a">>].code = 0
    /\ paEnv[<<"uploads", "a">>].wavExists
    /\ paPromise[<<"uploads", "a">>].state = "rejected"
    /\ paFired[<<"uploads", "b">>] = <<"close", "error">>
    /\ paEnv[<<"uploads", "b">>].code = 0
    /\ paEnv[<<"uploads", "b">>].wavExists
    /\ paPromise[<<"uploads", "b">>].state = "resolved"

\* C36: parseDurationToSeconds returns a number that is not negative, for
\* every argument, the strings with a negative field ('-5', '-1:30') included.
C36_ParseNonNegative ==
    Parsed =>
        /\ ~pOut[1].threw
        /\ pOut[1].number.t = "number"
        /\ ~pOut[1].number.nan
        /\ pOut[1].number.v >= 0

(***************************************************************************)
(* Range of the detected durations                                         *)
(***************************************************************************)
\* C35: every value getAudioDuration or getVideoDuration resolves with is a
\* number of seconds that is neither NaN nor negative, whatever the probe and
\* the processes report; a negative or NaN duration in the probe's metadata
\* is not passed through.
C35_ResolvedDurationInRange ==
    /\ aPromise.state = "resolved" =>
         /\ aPromise.value.t = "number"
         /\ ~aPromise.value.nan
         /\ aPromise.value.v >= 0
    /\ vPromise.state = "resolved" =>
         /\ vPromise.value.t = "number"
         /\ ~vPromise.value.nan
         /\ vPromise.value.v >= 0

(***************************************************************************)
(* Settling of transcribeAudio's promise                                   *)
(***************************************************************************)
\* C37: once the transcription process has ended with a terminating event
\* and the handler of that event has run to its end, the promise of
\* transcribeAudio is resolved or rejected; this includes the process-error
\* event of a process that could not be started.  No step follows either
\* position, so a promise found pending there stays pending.
C37_SettledAfterTermination ==
    tPc \in {"done", "crashed"} => tPromise.state \in {"resolved", "rejected"}

(***************************************************************************)
(* Classification of the transcription process's stderr                    *)
(***************************************************************************)
\* a logger call of the stderr listener at one of the levels that shows the line
LoggedAt(levels, line) ==
    \E e \in 1..Len(logs) :
        /\ logs[e].msg = "Python error"
        /\ logs[e].level \in levels
        /\ \E i \in 1..Len(logs[e].data) : logs[e].data[i] = line

\* C34: every stderr line of a running transcription that does not contain
\* the marker 'LOG (VoskAPI:' has been logged as an error, also when it came
\* in one chunk with a line that contains the marker; a line that contains
\* the marker has been logged at some level.
C34_StderrLinesClassified ==
    \A k \in 1..Len(pyStderr) :
        \A i \in 1..Len(pyStderr[k]) :
            IF pyStderr[k][i] = BenignLine
            THEN LoggedAt({"debug", "info", "warn", "error"}, BenignLine)
            ELSE LoggedAt({"error"}, pyStderr[k][i])

(***************************************************************************)
(* The error handler                                                       *)
(***************************************************************************)
\* errorHandler has been called on its own and has returned
Handled == op = "errorHandler" /\ hErr # NoHandled

\* the cleanup targets attached to the handled error, in order
AttachedTargets ==
    IF hErr.cleanup.array THEN hErr.cleanup.items
    ELSE IF hErr.cleanup.path # Null THEN <<hErr.cleanup.path>>
    ELSE <<>>

\* the deletion of one of the attached targets throws
CleanupThrew ==
    \E k \in 1..Len(AttachedTargets) : AttachedTargets[k] \in InvalidPaths

C32_CleanupFailureKeepsResponse ==
    (Handled /\ CleanupThrew) =>
        /\ response.sent
        /\ response.sends = 1
        /\ response.status = (IF hErr.statusCode # 0 THEN hErr.statusCode ELSE 500)
        /\ response.message = hErr.message
        /\ Len(logs) = 2
        /\ logs[1].level = "error"
        /\ logs[2] = LogEntry("warn", "Failed to clean up files", <<>>)
        /\ req.file # Null => deleteCalls[Len(deleteCalls)] = req.file

\* the case of the repository's test: status 400, one target, its deletion throws
C32_Witness ==
    /\ Handled
    /\ hErr.statusCode = 400
    /\ hErr.cleanup = PathValue(<<"uploads", "NUL">>)
    /\ req.file = Null
    /\ deleteCalls = << <<"uploads", "NUL">> >>
    /\ response.sends = 1
    /\ response.status = 400

(***************************************************************************)
(* The YouTube route                                                       *)
(***************************************************************************)
\* the stage a spawned process belongs to: 1 duration detection (primary or
\* fallback), 2 download, 3 conversion, 4 transcription
StageOfSpawn(k) ==
    IF spawnLog[k].tool = "yt-dlp"
    THEN IF spawnLog[k].args[1] \in {"--print", "--get-duration"} THEN 1 ELSE 2
    ELSE IF spawnLog[k].tool = "./venv/bin/python3" THEN 4 ELSE 3

\* C33: in the YouTube route a request without URL is answered with status
\* 400 and no process is started; otherwise the processes are started in the
\* order duration detection, download, conversion, transcription (the
\* estimate is computed between the first two), each stage only after the
\* promise of the previous one resolved; and when the download exits with a
\* non-zero code the answer is a status-500 error, no conversion and no
\* transcription is started, and the temporary file is deleted exactly when
\* fs.existsSync finds it.
C33_YoutubeStagesInOrder ==
    op = "youtubeRoute" =>
        /\ (rPc # "idle" /\ req.url = "") =>
             /\ rPc = "failed"
             /\ response.sent
             /\ response.status = 400
             /\ response.message = "YouTube URL is required."
             /\ spawnLog = <<>>
             /\ deleteCalls = <<>>
        /\ \A i, j \in 1..Len(spawnLog) : i < j => StageOfSpawn(i) <= StageOfSpawn(j)
        /\ \A stage \in {2, 3, 4} :
             Cardinality({k \in 1..Len(spawnLog) : StageOfSpawn(k) = stage}) <= 1
        /\ dlPc # "idle" => vPromise.state = "resolved"
        /\ tempFilename[1] # Null =>
             /\ paPc[tempFilename[1]] # "idle" =>
                  /\ dlPromise.state = "resolved"
                  /\ ytEnv.code = 0
             /\ tPc # "idle" =>
                  /\ paPromise[tempFilename[1]].state = "resolved"
                  /\ wavFile = paPromise[tempFilename[1]].path
             /\ (dlPc = "done" /\ ytEnv.code # 0) =>
                  /\ dlPromise.state = "rejected"
                  /\ paPc[tempFilename[1]] = "idle"
                  /\ tPc = "idle"
                  /\ rPc \in {"youtubeAwaitDownload", "failed"}
                  /\ rPc = "failed" =>
                       /\ response.sent
                       /\ response.sends = 1
                       /\ response.status = 500
                       /\ response.message = "yt-dlp exited with code " \o ToString(ytEnv.code)
                       /\ ytEnv.checked
                       /\ deleteCalls =
                            (IF ytEnv.exists THEN <<tempFilename[1]>> ELSE <<>>)
        /\ rPc = "responded" =>
             /\ response.success
             /\ tPromise.state = "resolved"
             /\ Len(spawnLog) >= 4

\* the download exited with code 2, the partial file was there and was deleted
C33_Witness ==
    /\ op = "youtubeRoute"
    /\ rPc = "failed"
    /\ ytEnv.code = 2
    /\ ytEnv.exists
    /\ response.status = 500
    /\ response.message = "yt-dlp exited with code 2"
    /\ deleteCalls = << <<"uploads", "1-youtube.mp3">> >>
    /\ Len(spawnLog) = 2

\* the conversion of input p ended with a 'close' event that reported a
\* non-zero exit code, before any 'error' event
ConversionExitedNonZero(p) ==
    /\ p # Null
    /\ paFired[p] # <<>>
    /\ paFired[p][1] = "close"
    /\ paEnv[p].code # 0

\* C39: after a conversion that failed with a non-zero exit code, the error
\* that reaches the error handler carries the output path '<input>.wav' as
\* its cleanup target, and the handler has called deleteFile on that path,
\* in the upload route (input: the uploaded file) and in the YouTube route
\* (input: the temporary download).
C39_ConversionFailureKeepsCleanupTarget ==
    /\ (op = "uploadRoute" /\ rPc = "failed" /\ ConversionExitedNonZero(req.file)) =>
         /\ hErr.statusCode = 500
         /\ hErr.cleanup = PathValue(<<req.file[1], req.file[2] \o ".wav">>)
         /\ Count(deleteCalls, <<req.file[1], req.file[2] \o ".wav">>) = 1
    /\ (op = "youtubeRoute" /\ rPc = "failed" /\ ConversionExitedNonZero(tempFilename[1])) =>
         /\ hErr.statusCode = 500
         /\ hErr.cleanup =
              PathValue(<<tempFilename[1][1], tempFilename[1][2] \o ".wav">>)
         /\ Count(deleteCalls, <<tempFilename[1][1], tempFilename[1][2] \o ".wav">>) = 1

\* the YouTube route after a conversion that exited with code 1
C39_Witness ==
    /\ op = "youtubeRoute"
    /\ rPc = "failed"
    /\ paFired[<<"uploads", "1-youtube.mp3">>] = <<"close">>
    /\ paEnv[<<"uploads", "1-youtube.mp3">>].code = 1
    /\ hErr.cleanup = PathValue(<<"uploads", "1-youtube.mp3.wav">>)
    /\ response.status = 500
    /\ Count(deleteCalls, <<"uploads", "1-youtube.mp3.wav">>) = 1

\* both requests of the YouTube route are in progress
BothInProgress ==
    /\ op = "youtubeRoute"
    /\ tempFilename[1] # Null
    /\ tempFilename[2] # Null
    /\ rPc \notin {"responded", "failed"}

\* C40: two runs of the YouTube route that are in progress at the same time
\* have different temporary download paths, and a run that fails does not
\* call deleteFile on the path of the other run; this includes two requests
\* that arrive within one millisecond.
C40_TempPathsDistinct ==
    /\ BothInProgress => tempFilename[1] # tempFilename[2]
    /\ (op = "youtubeRoute" /\ tempFilename[1] # Null /\ tempFilename[2] # Null) =>
         Count(deleteCalls, tempFilename[2]) = 0

====
